---- MODULE Spec2Model ----
(***************************************************************************)
(* State-machine model of the LMS backend: the Users table, the token      *)
(* issuer/verifier, the two identity middlewares, the response envelope    *)
(* (both utils/responses.js and the older utils/response.js) and the       *)
(* sign-up / sign-in / gated request handlers.                             *)
(*                                                                         *)
(* Every request is handled by one action that runs the middleware and    *)
(* the handler to completion and leaves the trace of that request in the   *)
(* variable `last`: the json() calls made on the response sink, how often  *)
(* next() was called, whether the route handler ran and what was attached  *)
(* to the request context.                                                 *)
(***************************************************************************)
EXTENDS Integers, Sequences, FiniteSets, Bags, TLC

VARIABLES Users, nextUserId, now, held, last, Courses, Likes, Categories, Chapters, pending,
          nextCourseId, inflight, kept

\* What a request on the likes surface leaves alone.
shelf == <<Categories, Chapters, pending, nextCourseId, inflight, kept>>

\* The tables besides Users, the list query a client is about to send, the
\* next auto-increment id of Courses, the requests that are suspended at one
\* of their data-layer calls and a token the client has put aside.
catalog == <<Courses, Likes, shelf>>

vars == <<Users, nextUserId, now, held, last, catalog>>

(***************************************************************************)
(* Bounds of the model.                                                    *)
(***************************************************************************)
MaxDay == 31
MaxUserId == 6
MaxCourseId == 4
MaxDrift == 2

(***************************************************************************)
(* Program constants.                                                      *)
(***************************************************************************)
ExpiresInDays == 30
PwMinLen == 6
PwMaxLen == 45
ROLE_ADMIN == 100
ROLE_NORMAL == 0
SEX_UNSPECIFIED == 2

SECRET == "process.env.SECRET"
NULL == "<undefined>"

(***************************************************************************)
(* Input alphabets of the requests.                                        *)
(***************************************************************************)
Emails == {NULL, "admin@gmail.com", "a@b.com"}
Usernames == {"admin", "alice"}
Nicknames == {"Alice"}
NewPasswords == {NULL, "abc", "abcdef"}
Passwords == {NULL, "abcdef", "123123"}
Logins == {NULL, "admin", "user1@gmail.com", "alice", "nobody"}
Salts == {"salt1"}
UNDEF == -1

(***************************************************************************)
(* bcryptjs: a digest remembers the salt it was made with; compareSync     *)
(* re-hashes the candidate with the digest's salt and compares.            *)
(***************************************************************************)
hashSync(value, salt) == [alg |-> "bcrypt", salt |-> salt, of |-> value]

compareSync(password, digest) == hashSync(password, digest.salt) = digest

(***************************************************************************)
(* jsonwebtoken.  A token header value is a record; kind "none" is the     *)
(* absent or empty header, kind "malformed" a string that is not a JWT.    *)
(***************************************************************************)
NoToken == [kind |-> "none", userId |-> 0, iat |-> 0, exp |-> 0, sig |-> ""]
MalformedToken == [kind |-> "malformed", userId |-> 0, iat |-> 0, exp |-> 0, sig |-> ""]

jwt_sign_week(userId, t) ==
    [kind |-> "jwt", userId |-> userId, iat |-> t, exp |-> t + 7, sig |-> SECRET]

jwt_sign(userId, t) ==
    [kind |-> "jwt", userId |-> userId, iat |-> t, exp |-> t + ExpiresInDays, sig |-> SECRET]

Forged(token) == [token EXCEPT !.sig = "other secret"]

NoErr == [name |-> "", message |-> "", errors |-> <<>>]
Err(name, message) == [name |-> name, message |-> message, errors |-> <<>>]

jwt_verify_ignoreExpiration(token, t) ==
    IF token.kind # "jwt" THEN [ok |-> FALSE, error |-> Err("JsonWebTokenError", "jwt malformed"), userId |-> 0]
    ELSE IF token.sig # SECRET THEN [ok |-> FALSE, error |-> Err("JsonWebTokenError", "invalid signature"), userId |-> 0]
    ELSE [ok |-> TRUE, error |-> NoErr, userId |-> token.userId]

jwt_verify(token, t) ==
    IF token.kind # "jwt" THEN [ok |-> FALSE, error |-> Err("JsonWebTokenError", "jwt malformed"), userId |-> 0]
    ELSE IF token.sig # SECRET THEN [ok |-> FALSE, error |-> Err("JsonWebTokenError", "invalid signature"), userId |-> 0]
    ELSE IF t >= token.exp THEN [ok |-> FALSE, error |-> Err("TokenExpiredError", "jwt expired"), userId |-> 0]
    ELSE [ok |-> TRUE, error |-> NoErr, userId |-> token.userId]

(***************************************************************************)
(* Response envelope.  A response is one res.status(code).json(body) call; *)
(* `fields` lists the optional keys present in the body.                   *)
(***************************************************************************)
NoData == [none |-> TRUE]

success_withErrors(message, data, code) ==
    <<[code |-> code, status |-> TRUE, message |-> message,
       fields |-> {"data", "errors"}, errors |-> <<>>, data |-> data]>>

success(message, data, code) ==
    <<[code |-> code, status |-> TRUE, message |-> message,
       fields |-> {"data"}, errors |-> <<>>, data |-> data]>>

FailBody(code, message, fields, errors) ==
    [code |-> code, status |-> FALSE, message |-> message,
     fields |-> fields, errors |-> errors, data |-> NoData]

failure_noTokenBranches(error) ==
    IF error.name = "SequelizeValidationError"
      THEN <<FailBody(400, "Validation error", {"errors"}, error.errors)>>
    ELSE IF error.name = "NotFoundError"
      THEN <<FailBody(404, "Resource not exists", {"errors"}, <<error.message>>)>>
    ELSE IF error.name = "BadRequestError"
      THEN <<FailBody(400, "Wrong Request Parameters", {"errors"}, <<error.message>>)>>
    ELSE IF error.name = "UnauthorizedError"
      THEN <<FailBody(401, "Verification failed", {"errors"}, <<error.message>>)>>
    ELSE <<FailBody(500, "Internal server error", {"error"}, <<error.message>>)>>

\* utils/responses.js: one json() call, chosen by the error's name.
failure(error) ==
    IF error.name = "SequelizeValidationError"
      THEN <<FailBody(400, "Validation error", {"errors"}, error.errors)>>
    ELSE IF error.name = "NotFoundError"
      THEN <<FailBody(404, "Resource not exists", {"errors"}, <<error.message>>)>>
    ELSE IF error.name = "BadRequestError"
      THEN <<FailBody(400, "Wrong Request Parameters", {"errors"}, <<error.message>>)>>
    ELSE IF error.name = "UnauthorizedError"
      THEN <<FailBody(401, "Verification failed", {"errors"}, <<error.message>>)>>
    ELSE IF error.name = "JsonWebTokenError"
      THEN <<FailBody(401, "Verification failed", {"errors"}, <<"Wrong Token">>)>>
    ELSE IF error.name = "TokenExpiredError"
      THEN <<FailBody(401, "Verification failed", {"errors"}, <<"Expired Token">>)>>
    ELSE <<FailBody(500, "Internal server error", {"error"}, <<error.message>>)>>

\* utils/response.js: the 404 and 500 writes are nested inside the
\* validation branch, so a validation error makes two json() calls (the
\* second one on an already sent response) and any other error makes none.
response_failure(error) ==
    IF error.name = "SequelizeValidationError"
      THEN <<FailBody(400, "Validation error", {"errors"}, error.errors)>>
           \o (IF error.name = "NotFoundError"
                 THEN <<FailBody(404, error.message, {}, <<>>)>>
                 ELSE <<>>)
           \o <<FailBody(500, "Internal server error", {"error"}, <<error.message>>)>>
      ELSE <<>>

(***************************************************************************)
(* models/user.js: the password setter runs when the instance is built,    *)
(* the validators when it is saved.                                        *)
(***************************************************************************)
Falsy(s) == s \in {NULL, ""}

PasswordSet(value) ==
    IF Falsy(value) THEN Err("Error", "Password is required.")
    ELSE IF Len(value) < PwMinLen \/ Len(value) > PwMaxLen
      THEN Err("Error", "Length of password must be between 2 ~ 45 characters.")
    ELSE NoErr

EmailErrors_noUnique(value, table) ==
    IF value = NULL THEN <<"Email is required.">> ELSE <<>>

EmailErrors(value, table) ==
    IF value = NULL THEN <<"Email is required.">>
    ELSE IF \E u \in table : u.email = value
      THEN <<"Email exists. Please use another one.">>
    ELSE <<>>

UsernameErrors(value, table) ==
    IF value = NULL THEN <<"Username is required.">>
    ELSE IF \E u \in table : u.username = value
      THEN <<"Username exists. Please use another one.">>
    ELSE <<>>

NicknameErrors(value) ==
    IF value = NULL THEN <<"Nickname is required.">> ELSE <<>>

SexErrors(value) ==
    IF value = UNDEF THEN <<"Sex is required.">>
    ELSE IF value \notin {0, 1, 2}
      THEN <<"The value of sex must be 0(male) or 1(female) or 2(no selection).">>
    ELSE <<>>

RoleErrors(value) ==
    IF value = UNDEF THEN <<"Role is required.">>
    ELSE IF value \notin {ROLE_NORMAL, ROLE_ADMIN}
      THEN <<"The value of role must be 0(normal user) or 100(administrator).">>
    ELSE <<>>

Validate(body, table) ==
    EmailErrors(body.email, table) \o UsernameErrors(body.username, table)
      \o NicknameErrors(body.nickname) \o SexErrors(body.sex) \o RoleErrors(body.role)

\* User.create(body): the error it rejects with, or NoErr when the row is inserted.
UserCreateError(body, table) ==
    IF PasswordSet(body.password) # NoErr THEN PasswordSet(body.password)
    ELSE IF Validate(body, table) # <<>>
      THEN [name |-> "SequelizeValidationError", message |-> "Validation error",
            errors |-> Validate(body, table)]
    ELSE NoErr

UserRow(id, body, salt) ==
    [id |-> id, email |-> body.email, username |-> body.username,
     password |-> hashSync(body.password, salt), nickname |-> body.nickname,
     sex |-> body.sex, role |-> body.role]

\* delete user.dataValues.password, then JSON serialisation
WithoutPassword(user) == [k \in (DOMAIN user) \ {"password"} |-> user[k]]

(***************************************************************************)
(* seeders: the Users table after `db:seed:all`.                           *)
(***************************************************************************)
SeedUser(id, email, username, nickname, sex, role) ==
    [id |-> id, email |-> email, username |-> username,
     password |-> hashSync("123123", "seed"), nickname |-> nickname,
     sex |-> sex, role |-> role]

SeedUsers ==
    { SeedUser(1, "admin@gmail.com", "admin", "admin", 2, ROLE_ADMIN),
      SeedUser(2, "user1@gmail.com", "user1", "user1", 0, ROLE_NORMAL),
      SeedUser(3, "user2@gmail.com", "user2", "user2", 0, ROLE_NORMAL),
      SeedUser(4, "user3@gmail.com", "user3", "user3", 1, ROLE_NORMAL) }

NoUser ==
    [id |-> 0, email |-> NULL, username |-> NULL, password |-> hashSync(NULL, NULL),
     nickname |-> NULL, sex |-> UNDEF, role |-> UNDEF]

NoBody ==
    [email |-> NULL, username |-> NULL, nickname |-> NULL, password |-> NULL,
     sex |-> UNDEF, role |-> UNDEF]

findByPk(table, id) == {u \in table : u.id = id}

\* User.findOne({ where: { [Op.or]: [{ email: login }, { username: login }] } })
findByLogin(table, login) == {u \in table : u.email = login \/ u.username = login}

(***************************************************************************)
(* The trace of one request.                                               *)
(*   mw          which identity middleware guards the route                *)
(*   token       the value of the `token` header                           *)
(*   nextCalled  how many times the middleware called next()               *)
(*   handlerRan  whether the route handler was entered                     *)
(*   reqUserId   req.userId (0 when not set), reqUser  req.user            *)
(*   err         the error handed to the failure path (NoErr when none)    *)
(*   mwRes       the json() calls the middleware made on the response      *)
(*   res         all json() calls made on the response, in order           *)
(*   raw         the request body as sent, body the object given to the    *)
(*               model, login/password the sign-in credentials             *)
(***************************************************************************)
Idle ==
    [route |-> "none", mw |-> "none", token |-> NoToken, nextCalled |-> 0,
     handlerRan |-> FALSE, reqUserId |-> 0, reqUser |-> NoUser, err |-> NoErr,
     mwRes |-> <<>>, res |-> <<>>, raw |-> NoBody, body |-> NoBody, login |-> NULL, password |-> NULL]

(***************************************************************************)
(* middlewares/user-auth.js and middlewares/admin-auth.js, up to the       *)
(* point where they either call next() or hand an error to failure().      *)
(***************************************************************************)
userAuth_looksUp(token, t) ==
    IF token.kind = "none"
      THEN [pass |-> FALSE, error |-> Err("UnauthorizedError", "Authorization token is required."),
            userId |-> 0, user |-> NoUser]
    ELSE IF ~jwt_verify(token, t).ok
      THEN [pass |-> FALSE, error |-> jwt_verify(token, t).error, userId |-> 0, user |-> NoUser]
    ELSE IF findByPk(Users, jwt_verify(token, t).userId) = {}
      THEN [pass |-> FALSE, error |-> Err("UnauthorizedError", "User not exists"),
            userId |-> 0, user |-> NoUser]
    ELSE [pass |-> TRUE, error |-> NoErr, userId |-> jwt_verify(token, t).userId, user |-> NoUser]

userAuth(token, t) ==
    IF token.kind = "none"
      THEN [pass |-> FALSE, error |-> Err("UnauthorizedError", "Authorization token is required."),
            userId |-> 0, user |-> NoUser]
    ELSE IF ~jwt_verify(token, t).ok
      THEN [pass |-> FALSE, error |-> jwt_verify(token, t).error, userId |-> 0, user |-> NoUser]
    ELSE [pass |-> TRUE, error |-> NoErr, userId |-> jwt_verify(token, t).userId, user |-> NoUser]

adminAuth_noRoleCheck(token, t, table) ==
    IF token.kind = "none"
      THEN [pass |-> FALSE, error |-> Err("UnauthorizedError", "Authorization token is required."),
            userId |-> 0, user |-> NoUser]
    ELSE IF ~jwt_verify(token, t).ok
      THEN [pass |-> FALSE, error |-> jwt_verify(token, t).error, userId |-> 0, user |-> NoUser]
    ELSE IF findByPk(table, jwt_verify(token, t).userId) = {}
      THEN [pass |-> FALSE, error |-> Err("UnauthorizedError", "User not exists"),
            userId |-> 0, user |-> NoUser]
    ELSE [pass |-> TRUE, error |-> NoErr, userId |-> 0,
          user |-> CHOOSE u \in findByPk(table, jwt_verify(token, t).userId) : TRUE]

adminAuth(token, t, table) ==
    IF token.kind = "none"
      THEN [pass |-> FALSE, error |-> Err("UnauthorizedError", "Authorization token is required."),
            userId |-> 0, user |-> NoUser]
    ELSE IF ~jwt_verify(token, t).ok
      THEN [pass |-> FALSE, error |-> jwt_verify(token, t).error, userId |-> 0, user |-> NoUser]
    ELSE IF findByPk(table, jwt_verify(token, t).userId) = {}
      THEN [pass |-> FALSE, error |-> Err("UnauthorizedError", "User not exists"),
            userId |-> 0, user |-> NoUser]
    ELSE LET user == CHOOSE u \in findByPk(table, jwt_verify(token, t).userId) : TRUE
         IN IF user.role # ROLE_ADMIN
              THEN [pass |-> FALSE, error |-> Err("UnauthorizedError", "Not authorized as admin."),
                    userId |-> 0, user |-> NoUser]
              ELSE [pass |-> TRUE, error |-> NoErr, userId |-> 0, user |-> user]

\* The trace of a gated request that the middleware has processed.
Gated(route, mw, token, a) ==
    [Idle EXCEPT !.route = route, !.mw = mw, !.token = token,
                 !.nextCalled = IF a.pass THEN 1 ELSE 0,
                 !.reqUserId = a.userId, !.reqUser = a.user,
                 !.err = a.error,
                 !.mwRes = IF a.pass THEN <<>> ELSE failure(a.error),
                 !.res = IF a.pass THEN <<>> ELSE failure(a.error)]

\* Header values a client can send: nothing, a non-JWT string, the token it
\* holds, or that token re-signed with a key that is not the server's.
TokenHeaders ==
    {NoToken, MalformedToken} \cup (IF held.kind = "jwt" THEN {held, Forged(held)} ELSE {})

(***************************************************************************)
(* The Courses table (models/course.js) with the columns the handlers      *)
(* below read or write.  A course that nobody has liked yet has            *)
(* likesCount 0.  Likes is the join table between users and courses: a bag *)
(* of rows, since nothing in the model or the handler keeps a (courseId,   *)
(* userId) pair from being stored twice.                                   *)
(***************************************************************************)
CourseRow(id, categoryId, userId, name) ==
    [id |-> id, categoryId |-> categoryId, userId |-> userId, name |-> name, likesCount |-> 0]

SeedCourses == {CourseRow(1, 1, 1, <<"C", "S", "S">>), CourseRow(2, 1, 1, <<"J", "S">>)}

CategoryRow(id, name, rank) == [id |-> id, name |-> name, rank |-> rank]

SeedCategories == {CategoryRow(1, <<"F", "E">>, 2), CategoryRow(2, <<"B", "E">>, 1)}

ChapterRow(id, courseId, title, rank) ==
    [id |-> id, courseId |-> courseId, title |-> title, rank |-> rank]

SeedChapters ==
    {ChapterRow(1, 1, <<"C", "S", "S">>, 1), ChapterRow(2, 2, <<"J", "S">>, 1),
     ChapterRow(3, 1, <<"H", "T">>, 2)}

\* No list query is being sent.
NoQuery == [none |-> TRUE]

\* A request slot that holds no suspended request.
NoRequest ==
    [pc |-> "done", op |-> "none", token |-> NoToken, userId |-> 0, courseId |-> 0,
     categoryId |-> 0, name |-> <<>>, liked |-> FALSE, gone |-> FALSE, body |-> NoBody,
     salt |-> NULL, res |-> <<>>]

Slots == {1, 2}

\* The database after migration and seeding.
Booted ==
    /\ Users = SeedUsers
    /\ nextUserId = 5
    /\ now = 0
    /\ held = NoToken
    /\ last = Idle
    /\ Courses = SeedCourses
    /\ Likes = EmptyBag
    /\ Categories = SeedCategories
    /\ Chapters = SeedChapters
    /\ nextCourseId = 3
    /\ inflight = [s \in Slots |-> NoRequest]
    /\ kept = NoToken

LikeRow(courseId, userId) == [courseId |-> courseId, userId |-> userId]

Init == Booted /\ pending = NoQuery

(***************************************************************************)
(* POST /auth/sign_up                                                      *)
(***************************************************************************)
SignUpBody_trustsRequest(raw) ==
    [email |-> raw.email, username |-> raw.username, nickname |-> raw.nickname,
     password |-> raw.password,
     sex |-> IF raw.sex = UNDEF THEN SEX_UNSPECIFIED ELSE raw.sex,
     role |-> IF raw.role = UNDEF THEN ROLE_NORMAL ELSE raw.role]

SignUpBody(raw) ==
    [email |-> raw.email, username |-> raw.username, nickname |-> raw.nickname,
     password |-> raw.password, sex |-> SEX_UNSPECIFIED, role |-> ROLE_NORMAL]

SignUp(raw, salt) ==
    LET body == SignUpBody(raw)
        error == UserCreateError(body, Users)
        user == UserRow(nextUserId, body, salt)
        req == [Idle EXCEPT !.route = "POST /auth/sign_up", !.handlerRan = TRUE,
                            !.raw = raw, !.body = body]
    IN /\ IF error = NoErr
            THEN /\ nextUserId <= MaxUserId
                 /\ Users' = Users \cup {user}
                 /\ nextUserId' = nextUserId + 1
                 /\ last' = [req EXCEPT !.res = success("User is created successfully!",
                                                        [user |-> WithoutPassword(user)], 201)]
            ELSE /\ UNCHANGED <<Users, nextUserId>>
                 /\ last' = [req EXCEPT !.err = error, !.res = failure(error)]
       /\ UNCHANGED <<now, held, catalog>>

(***************************************************************************)
(* POST /auth/sign_in and POST /admin/auth/sign_in.  The error the handler *)
(* throws for the row `found` that findOne returned ({} when no row).      *)
(***************************************************************************)
SignInError_noPasswordCheck(login, password, found) ==
    IF Falsy(login) THEN Err("BadRequestError", "Email/Username is required.")
    ELSE IF Falsy(password) THEN Err("BadRequestError", "Password is required.")
    ELSE IF found = {} THEN Err("NotFoundError", "User not found.")
    ELSE NoErr

SignInError(login, password, found) ==
    IF Falsy(login) THEN Err("BadRequestError", "Email/Username is required.")
    ELSE IF Falsy(password) THEN Err("BadRequestError", "Password is required.")
    ELSE IF found = {} THEN Err("NotFoundError", "User not found.")
    ELSE IF \E user \in found : ~compareSync(password, user.password)
      THEN Err("UnauthorizedError", "Wrong password.")
    ELSE NoErr

AdminSignInError_noRoleCheck(login, password, found) ==
    IF Falsy(login) THEN Err("BadRequestError", "Email/Username is required.")
    ELSE IF Falsy(password) THEN Err("BadRequestError", "Password is required.")
    ELSE IF found = {} THEN Err("NotFoundError", "User not exists. Login failed")
    ELSE IF \E user \in found : ~compareSync(password, user.password)
      THEN Err("UnauthorizedError", "Password is incorrect.")
    ELSE NoErr

AdminSignInError(login, password, found) ==
    IF Falsy(login) THEN Err("BadRequestError", "Email/Username is required.")
    ELSE IF Falsy(password) THEN Err("BadRequestError", "Password is required.")
    ELSE IF found = {} THEN Err("NotFoundError", "User not exists. Login failed")
    ELSE IF \E user \in found : ~compareSync(password, user.password)
      THEN Err("UnauthorizedError", "Password is incorrect.")
    ELSE IF \E user \in found : user.role # ROLE_ADMIN
      THEN Err("UnauthorizedError", "Not authorized to access.")
    ELSE NoErr

\* findOne returns at most one of the rows that match the login.
FoundRows(login) ==
    IF findByLogin(Users, login) = {} THEN {{}}
    ELSE {{u} : u \in findByLogin(Users, login)}

SignInWith(route, login, password, error, found) ==
    LET req == [Idle EXCEPT !.route = route, !.handlerRan = TRUE,
                            !.login = login, !.password = password]
    IN /\ IF error = NoErr
            THEN LET user == CHOOSE u \in found : TRUE
                     token == jwt_sign(user.id, now)
                 IN /\ held' = token
                    /\ last' = [req EXCEPT !.res = success("Login successfully!",
                                                           [token |-> token], 200)]
            ELSE /\ held' = held
                 /\ last' = [req EXCEPT !.err = error, !.res = failure(error)]
       /\ UNCHANGED <<Users, nextUserId, now, catalog>>

SignIn(login, password) ==
    \E found \in FoundRows(login) :
        SignInWith("POST /auth/sign_in", login, password,
                   SignInError(login, password, found), found)

AdminSignIn(login, password) ==
    \E found \in FoundRows(login) :
        SignInWith("POST /admin/auth/sign_in", login, password,
                   AdminSignInError(login, password, found), found)

(***************************************************************************)
(* GET /users/me behind the user middleware.                               *)
(***************************************************************************)
GetUsersMe(token) ==
    LET a == userAuth(token, now)
        req == Gated("GET /users/me", "user", token, a)
        found == findByPk(Users, a.userId)
        error == Err("NotFoundError", "User with ID is not found.")
    IN /\ last' = IF ~a.pass THEN req
                  ELSE IF found = {}
                    THEN [req EXCEPT !.handlerRan = TRUE, !.err = error, !.res = failure(error)]
                  ELSE [req EXCEPT !.handlerRan = TRUE,
                                   !.res = success("User Information is returned",
                                     [user |-> WithoutPassword(CHOOSE u \in found : TRUE)], 200)]
       /\ UNCHANGED <<Users, nextUserId, now, held, catalog>>

(***************************************************************************)
(* routes/admin/users.js behind the admin middleware.  This router takes   *)
(* success and failure from utils/response.js.                             *)
(***************************************************************************)
AdminGetUser(token, id) ==
    LET a == adminAuth(token, now, Users)
        req == Gated("GET /admin/users/:id", "admin", token, a)
        found == findByPk(Users, id)
        error == Err("NotFoundError", "ID not found")
    IN /\ last' = IF ~a.pass THEN req
                  ELSE IF found = {}
                    THEN [req EXCEPT !.handlerRan = TRUE, !.err = error,
                                     !.res = response_failure(error)]
                  ELSE [req EXCEPT !.handlerRan = TRUE,
                                   !.res = success("Query successful",
                                     [user |-> CHOOSE u \in found : TRUE], 200)]
       /\ UNCHANGED <<Users, nextUserId, now, held, catalog>>

filterBody(raw) ==
    [email |-> raw.email, username |-> raw.username, nickname |-> raw.nickname,
     password |-> raw.password, sex |-> raw.sex, role |-> raw.role]

AdminCreateUser(token, raw, salt) ==
    LET a == adminAuth(token, now, Users)
        req == [Gated("POST /admin/users", "admin", token, a) EXCEPT !.raw = raw]
        body == filterBody(raw)
        error == UserCreateError(body, Users)
        user == UserRow(nextUserId, body, salt)
    IN IF ~a.pass
         THEN /\ last' = req
              /\ UNCHANGED <<Users, nextUserId, now, held, catalog>>
       ELSE IF error = NoErr
         THEN /\ nextUserId <= MaxUserId
              /\ Users' = Users \cup {user}
              /\ nextUserId' = nextUserId + 1
              /\ last' = [req EXCEPT !.handlerRan = TRUE, !.body = body,
                                     !.res = success("Query successful", [user |-> user], 201)]
              /\ UNCHANGED <<now, held, catalog>>
       ELSE /\ last' = [req EXCEPT !.handlerRan = TRUE, !.body = body, !.err = error,
                                   !.res = response_failure(error)]
            /\ UNCHANGED <<Users, nextUserId, now, held, catalog>>

(***************************************************************************)
(* Environment: the clock advances, by one day or by the lifetime of a     *)
(* token; the seeder is undone (bulkDelete of the Users table).            *)
(***************************************************************************)
Advance(days) ==
    /\ now + days <= MaxDay
    /\ now' = now + days
    /\ last' = Idle
    /\ UNCHANGED <<Users, nextUserId, held, catalog>>

Tick == Advance(1)

TickLifetime == Advance(ExpiresInDays)

SeedDown ==
    /\ Users # {}
    /\ Users' = {}
    /\ last' = Idle
    /\ UNCHANGED <<nextUserId, now, held, catalog>>

\* Sign-up bodies: with and without the sex and role keys.
SignUpBodies ==
    [email : Emails, username : Usernames, nickname : Nicknames,
     password : NewPasswords, sex : {UNDEF}, role : {UNDEF}]
    \cup [email : Emails, username : Usernames, nickname : Nicknames,
          password : NewPasswords, sex : {1}, role : {ROLE_ADMIN}]

AdminBodies ==
    [email : Emails \ {NULL}, username : Usernames, nickname : Nicknames,
     password : {"abcdef"}, sex : {1}, role : {ROLE_NORMAL, ROLE_ADMIN}]

UserIds == {1, 99}

Next ==
    \/ \E raw \in SignUpBodies, salt \in Salts : SignUp(raw, salt)
    \/ \E login \in Logins, password \in Passwords : SignIn(login, password)
    \/ \E login \in Logins, password \in Passwords : AdminSignIn(login, password)
    \/ \E token \in TokenHeaders : GetUsersMe(token)
    \/ \E token \in TokenHeaders, id \in UserIds : AdminGetUser(token, id)
    \/ \E token \in TokenHeaders, raw \in AdminBodies, salt \in Salts : AdminCreateUser(token, raw, salt)
    \/ TickLifetime
    \/ SeedDown

Spec == Init /\ [][Next]_vars

\* The authentication surface under a clock that advances day by day.
NextClock ==
    \/ \E login \in Logins, password \in Passwords : SignIn(login, password)
    \/ \E login \in Logins, password \in Passwords : AdminSignIn(login, password)
    \/ \E token \in TokenHeaders : GetUsersMe(token)
    \/ \E token \in TokenHeaders, id \in UserIds : AdminGetUser(token, id)
    \/ Tick
    \/ SeedDown

SpecClock == Init /\ [][NextClock]_vars

(***************************************************************************)
(* POST /likes behind the user middleware (routes/likes.js).  The handler  *)
(* looks the course up, then the like of this user for this course, and    *)
(* either creates the like and increments the counter or destroys it and   *)
(* decrements the counter.                                                 *)
(***************************************************************************)
increment_keepsCount(course) == course

increment(course) == [course EXCEPT !.likesCount = @ + 1]

decrement_keepsCount(course) == course

decrement(course) == [course EXCEPT !.likesCount = @ - 1]

\* The table after `row` has been written back in place of the row it came from.
Saved(table, row) == {IF c.id = row.id THEN row ELSE c : c \in table}

PostLikes(token, courseId) ==
    LET a == userAuth(token, now)
        req == [Gated("POST /likes", "user", token, a) EXCEPT !.raw = [courseId |-> courseId]]
        found == findByPk(Courses, courseId)
        error == Err("NotFoundError", "Course not exists")
        like == LikeRow(courseId, a.userId)
    IN /\ IF ~a.pass
            THEN /\ last' = req
                 /\ UNCHANGED catalog
          ELSE IF found = {}
            THEN /\ last' = [req EXCEPT !.handlerRan = TRUE, !.err = error, !.res = failure(error)]
                 /\ UNCHANGED catalog
          ELSE LET course == CHOOSE c \in found : TRUE
               IN IF ~BagIn(like, Likes)
                    THEN /\ Likes' = Likes (+) SetToBag({like})
                         /\ Courses' = Saved(Courses, increment(course))
                         /\ UNCHANGED shelf
                         /\ last' = [req EXCEPT !.handlerRan = TRUE,
                                        !.res = success("Liked successfully.", NoData, 200)]
                    ELSE /\ Likes' = Likes (-) SetToBag({like})
                         /\ Courses' = Saved(Courses, decrement(course))
                         /\ UNCHANGED shelf
                         /\ last' = [req EXCEPT !.handlerRan = TRUE,
                                        !.res = success("Unliked successfully.", NoData, 200)]
       /\ UNCHANGED <<Users, nextUserId, now, held>>

\* courseId values a client sends: two courses that exist, one that does not,
\* and a body without courseId.
LikeCourseIds == {1, 2, 99, UNDEF}

NextLikes ==
    \/ \E login \in Logins, password \in Passwords : SignIn(login, password)
    \/ \E token \in TokenHeaders, courseId \in LikeCourseIds : PostLikes(token, courseId)

SpecLikes == Init /\ [][NextLikes]_vars

(***************************************************************************)
(* Pagination of the list endpoints.  Every list handler starts with       *)
(*     currentPage = Math.abs(Number(query.currentPage)) || 1              *)
(*     pageSize    = Math.abs(Number(query.pageSize)) || 10                *)
(*     offset      = (currentPage - 1) * pageSize                          *)
(* A query parameter is a string, here a sequence of characters, or is     *)
(* absent.  A JavaScript number is NaN or a decimal n/d with d a power of  *)
(* ten, kept without trailing zeros.                                       *)
(***************************************************************************)
QueryChars == {"-", "0", "5", ".", "a"}

Absent == <<NULL>>

DigitValue == ("0" :> 0) @@ ("1" :> 1) @@ ("2" :> 2) @@ ("5" :> 5)

NaN == [nan |-> TRUE, n |-> 0, d |-> 1]

RECURSIVE Num(_, _)
Num(n, d) ==
    IF d > 1 /\ n % 10 = 0 THEN Num(n \div 10, d \div 10)
    ELSE [nan |-> FALSE, n |-> n, d |-> d]

RECURSIVE DigitsValue(_)
DigitsValue(s) ==
    IF s = <<>> THEN 0
    ELSE 10 * DigitsValue(SubSeq(s, 1, Len(s) - 1)) + DigitValue[s[Len(s)]]

RECURSIVE Pow10(_)
Pow10(k) == IF k = 0 THEN 1 ELSE 10 * Pow10(k - 1)

IsDigits(s) == \A i \in 1..Len(s) : s[i] \in DOMAIN DigitValue

\* StrUnsignedDecimalLiteral: digits, digits with a fraction, or a fraction.
StrUnsigned(s) ==
    LET dots == {i \in 1..Len(s) : s[i] = "."}
    IN IF dots = {}
         THEN IF s # <<>> /\ IsDigits(s) THEN Num(DigitsValue(s), 1) ELSE NaN
       ELSE IF Cardinality(dots) > 1 THEN NaN
       ELSE LET k == CHOOSE i \in dots : TRUE
                int == SubSeq(s, 1, k - 1)
                frac == SubSeq(s, k + 1, Len(s))
            IN IF IsDigits(int) /\ IsDigits(frac) /\ Len(int) + Len(frac) > 0
                 THEN Num(DigitsValue(int \o frac), Pow10(Len(frac)))
                 ELSE NaN

\* Number(value) of a query parameter: undefined gives NaN, the empty string
\* 0, a signed decimal its value, anything else NaN.
Number(s) ==
    IF s = Absent THEN NaN
    ELSE IF s = <<>> THEN Num(0, 1)
    ELSE IF s[1] = "-"
      THEN LET v == StrUnsigned(Tail(s)) IN IF v.nan THEN NaN ELSE Num(0 - v.n, v.d)
    ELSE StrUnsigned(s)

Math_abs_identity(x) == x

Math_abs(x) == IF x.nan THEN NaN ELSE Num(IF x.n < 0 THEN 0 - x.n ELSE x.n, x.d)

\* x || fallback: NaN and 0 are falsy.
OrDefault_zeroPasses(x, fallback) == IF x.nan THEN Num(fallback, 1) ELSE x

OrDefault(x, fallback) == IF x.nan \/ x.n = 0 THEN Num(fallback, 1) ELSE x

Minus(a, b) == Num(a.n * b.d - b.n * a.d, a.d * b.d)

Times(a, b) == Num(a.n * b.n, a.d * b.d)

DefaultPage == 1
DefaultPageSize == 10

Paginate_offsetFromPage(query) ==
    LET currentPage == OrDefault(Math_abs(Number(query.currentPage)), DefaultPage)
        pageSize == OrDefault(Math_abs(Number(query.pageSize)), DefaultPageSize)
    IN [currentPage |-> currentPage, pageSize |-> pageSize,
        offset |-> Times(currentPage, pageSize), limit |-> pageSize]

Paginate(query) ==
    LET currentPage == OrDefault(Math_abs(Number(query.currentPage)), DefaultPage)
        pageSize == OrDefault(Math_abs(Number(query.pageSize)), DefaultPageSize)
    IN [currentPage |-> currentPage, pageSize |-> pageSize,
        offset |-> Times(Minus(currentPage, Num(1, 1)), pageSize), limit |-> pageSize]

(***************************************************************************)
(* The list handlers: GET /search (public), GET /admin/categories (admin)  *)
(* and GET /likes (user).  Each builds a condition {where, limit, offset}, *)
(* hands it to the data layer and reports count, rows and the pagination   *)
(* it used.  The request trace keeps the query in `raw` and the condition  *)
(* in `body`.                                                              *)
(***************************************************************************)
Truthy(s) == s # Absent /\ s # <<>>

\* value LIKE %keyword%
Like(value, keyword) ==
    \E i \in 1..(Len(value) + 1) :
        /\ i + Len(keyword) - 1 <= Len(value)
        /\ SubSeq(value, i, i + Len(keyword) - 1) = keyword

TextColumns == {"email", "username", "nickname"}

\* A column the row has no value for is NULL, and no comparison with NULL
\* is true.  A string compared with an INTEGER column is compared as a number.
Holds(row, p) ==
    IF p.field \notin DOMAIN row THEN FALSE
    ELSE IF p.op = "like" THEN Like(row[p.field], p.value)
    ELSE IF p.field \in TextColumns THEN row[p.field] = p.value
    ELSE Number(p.value) = [nan |-> FALSE, n |-> row[p.field], d |-> 1]

IsInteger(x) == ~x.nan /\ x.d = 1

\* MySQL takes only non-negative integer constants after LIMIT.
DataLayerAccepts(condition) ==
    /\ IsInteger(condition.limit) /\ condition.limit.n >= 0
    /\ IsInteger(condition.offset) /\ condition.offset.n >= 0

ByIdDesc(a, b) == a.id > b.id

ByRankThenId(a, b) == a.rank < b.rank \/ (a.rank = b.rank /\ a.id < b.id)

\* Row a comes before row b under the ORDER BY clause `order`.
Before(order, a, b) == IF order = "id DESC" THEN ByIdDesc(a, b) ELSE ByRankThenId(a, b)

findAndCountAll(table, condition, order) ==
    LET matching == {r \in table : \A p \in condition.where : Holds(r, p)}
        position(r) == Cardinality({o \in matching : Before(order, o, r)})
    IN [count |-> Cardinality(matching),
        rows |-> {r \in matching : /\ position(r) >= condition.offset.n
                                   /\ position(r) < condition.offset.n + condition.limit.n}]

NameFilter(query) ==
    IF Truthy(query.name) THEN {[field |-> "name", op |-> "like", value |-> query.name]} ELSE {}

Condition_rawLimit(query, where) ==
    [where |-> where, limit |-> Math_abs(Number(query.pageSize)),
     offset |-> Paginate(query).offset]

Condition(query, where) ==
    [where |-> where, limit |-> Paginate(query).limit, offset |-> Paginate(query).offset]

Pagination(query, count) ==
    [total |-> count, currentPage |-> Paginate(query).currentPage,
     pageSize |-> Paginate(query).pageSize]

\* The handler from the condition on: the data layer call and the response.
Listed(req, message, table, condition, order) ==
    LET error == Err("SequelizeDatabaseError", "You have an error in your SQL syntax")
        found == findAndCountAll(table, condition, order)
    IN IF DataLayerAccepts(condition)
         THEN [req EXCEPT !.handlerRan = TRUE, !.body = condition,
                          !.res = success(message,
                                    [rows |-> found.rows,
                                     pagination |-> Pagination(req.raw, found.count)], 200)]
         ELSE [req EXCEPT !.handlerRan = TRUE, !.body = condition, !.err = error,
                          !.res = failure(error)]

GetSearch ==
    LET req == [Idle EXCEPT !.route = "GET /search", !.raw = pending]
    IN /\ pending # NoQuery
       /\ last' = Listed(req, "Search successfully", Courses,
                         Condition(pending, NameFilter(pending)), "id DESC")
       /\ UNCHANGED <<Users, nextUserId, now, held, catalog>>

GetAdminCategories(token) ==
    LET a == adminAuth(token, now, Users)
        req == [Gated("GET /admin/categories", "admin", token, a) EXCEPT !.raw = pending]
    IN /\ pending # NoQuery
       /\ last' = IF ~a.pass THEN req
                  ELSE Listed(req, "Query successful", Categories,
                              Condition(pending, NameFilter(pending)), "rank ASC, id ASC")
       /\ UNCHANGED <<Users, nextUserId, now, held, catalog>>

\* The courses user `userId` likes, one row per like.
LikeCourses(userId) == {c \in Courses : BagIn(LikeRow(c.id, userId), Likes)}

GetLikes(token) ==
    LET a == userAuth(token, now)
        req == [Gated("GET /likes", "user", token, a) EXCEPT !.raw = pending]
        error == Err("TypeError", "Cannot read properties of null (reading 'getLikeCourses')")
    IN /\ pending # NoQuery
       /\ last' = IF ~a.pass THEN req
                  ELSE IF findByPk(Users, a.userId) = {}
                    THEN [req EXCEPT !.handlerRan = TRUE, !.err = error, !.res = failure(error)]
                  ELSE Listed(req, "Liked Courses are returned", LikeCourses(a.userId),
                              Condition(pending, {}), "id DESC")
       /\ UNCHANGED <<Users, nextUserId, now, held, catalog>>

MaxQueryLen == 3

\* The strings of up to MaxQueryLen characters, and the absent parameter.
RawValues == {Absent} \cup UNION {[1..k -> QueryChars] : k \in 0..MaxQueryLen}

FewValues == {Absent, <<"0">>, <<"5">>, <<"-", "5">>, <<"5", ".", "5">>}

Keywords == {<<>>, <<"S">>, <<"S", "S">>}

Queries ==
    {[currentPage |-> a, pageSize |-> b, name |-> Absent] : a \in RawValues, b \in FewValues}
    \cup {[currentPage |-> a, pageSize |-> b, name |-> Absent] : a \in FewValues, b \in RawValues}
    \cup {[currentPage |-> Absent, pageSize |-> Absent, name |-> k] : k \in Keywords}

InitPages == Booted /\ pending \in Queries

NextPages ==
    \/ AdminSignIn("admin", "123123")
    \/ GetSearch
    \/ \E token \in TokenHeaders : GetAdminCategories(token)
    \/ \E token \in TokenHeaders : GetLikes(token)

SpecPages == InitPages /\ [][NextPages]_vars

(***************************************************************************)
(* Sign-up followed by sign-in.  A username is any string of 2 to 45       *)
(* characters, so it may be spelled like somebody's email address, and     *)
(* sign-in looks the login up in both columns.                             *)
(***************************************************************************)
RoundTripBodies ==
    [email : {"a@b.com", "c@d.com"}, username : {"alice", "a@b.com"}, nickname : Nicknames,
     password : {"abcdef", "123123"}, sex : {UNDEF}, role : {UNDEF}]

RoundTripLogins == {"a@b.com", "alice", "c@d.com"}

NextRoundTrip ==
    \/ \E raw \in RoundTripBodies, salt \in Salts : SignUp(raw, salt)
    \/ \E login \in RoundTripLogins, password \in Passwords : SignIn(login, password)

SpecRoundTrip == Init /\ [][NextRoundTrip]_vars

(***************************************************************************)
(* user.update(values): Sequelize drops the keys whose value is undefined, *)
(* runs the password setter while assigning, validates the fields that     *)
(* were given (the uniqueness validators look the value up in the whole    *)
(* table) and saves.                                                       *)
(***************************************************************************)
ValidateUpdate(values, table) ==
    (IF values.email = NULL THEN <<>> ELSE EmailErrors(values.email, table))
      \o (IF values.username = NULL THEN <<>> ELSE UsernameErrors(values.username, table))
      \o (IF values.sex = UNDEF THEN <<>> ELSE SexErrors(values.sex))
      \o (IF values.role = UNDEF THEN <<>> ELSE RoleErrors(values.role))

UserUpdateError_noSetter(values, table) ==
    IF ValidateUpdate(values, table) # <<>>
      THEN [name |-> "SequelizeValidationError", message |-> "Validation error",
            errors |-> ValidateUpdate(values, table)]
    ELSE NoErr

UserUpdateError(values, table) ==
    IF values.password # NULL /\ PasswordSet(values.password) # NoErr
      THEN PasswordSet(values.password)
    ELSE IF ValidateUpdate(values, table) # <<>>
      THEN [name |-> "SequelizeValidationError", message |-> "Validation error",
            errors |-> ValidateUpdate(values, table)]
    ELSE NoErr

Updated(user, values, salt) ==
    [user EXCEPT !.email = IF values.email = NULL THEN @ ELSE values.email,
                 !.username = IF values.username = NULL THEN @ ELSE values.username,
                 !.nickname = IF values.nickname = NULL THEN @ ELSE values.nickname,
                 !.password = IF values.password = NULL THEN @ ELSE hashSync(values.password, salt),
                 !.sex = IF values.sex = UNDEF THEN @ ELSE values.sex,
                 !.role = IF values.role = UNDEF THEN @ ELSE values.role]

(***************************************************************************)
(* PUT /admin/users/:id (routes/admin/users.js, utils/response.js).        *)
(***************************************************************************)
AdminUpdateUser(token, id, raw, salt) ==
    LET a == adminAuth(token, now, Users)
        req == [Gated("PUT /admin/users/:id", "admin", token, a) EXCEPT !.raw = raw]
        found == findByPk(Users, id)
        missing == Err("NotFoundError", "ID not found")
        body == filterBody(raw)
        error == UserUpdateError(body, Users)
    IN /\ IF ~a.pass
            THEN /\ last' = req
                 /\ Users' = Users
          ELSE IF found = {}
            THEN /\ last' = [req EXCEPT !.handlerRan = TRUE, !.err = missing,
                                        !.res = response_failure(missing)]
                 /\ Users' = Users
          ELSE IF error # NoErr
            THEN /\ last' = [req EXCEPT !.handlerRan = TRUE, !.body = body, !.err = error,
                                        !.res = response_failure(error)]
                 /\ Users' = Users
          ELSE LET user == Updated(CHOOSE u \in found : TRUE, body, salt)
               IN /\ Users' = Saved(Users, user)
                  /\ last' = [req EXCEPT !.handlerRan = TRUE, !.body = body,
                                         !.res = success("Query successful", [user |-> user], 200)]
       /\ UNCHANGED <<nextUserId, now, held, catalog>>

(***************************************************************************)
(* PUT /users/account behind the user middleware (routes/users.js).        *)
(***************************************************************************)
AccountError_noCurrentPassword(raw, found) ==
    IF raw.password # raw.passwordConfirmation
      THEN Err("BadRequestError", "Password and confirmation do not match.")
    ELSE IF found = {} THEN Err("NotFoundError", "User with ID is not found.")
    ELSE NoErr

AccountError(raw, found) ==
    IF Falsy(raw.currentPassword) THEN Err("BadRequestError", "Current password is required.")
    ELSE IF raw.password # raw.passwordConfirmation
      THEN Err("BadRequestError", "Password and confirmation do not match.")
    ELSE IF found = {} THEN Err("NotFoundError", "User with ID is not found.")
    ELSE IF \E user \in found : ~compareSync(raw.currentPassword, user.password)
      THEN Err("BadRequestError", "Current password is incorrect.")
    ELSE NoErr

\* The keys of the account body that are columns of the model.
AccountValues(raw) ==
    [email |-> raw.email, username |-> raw.username, nickname |-> NULL,
     password |-> raw.password, sex |-> UNDEF, role |-> UNDEF]

PutUsersAccount(token, raw, salt) ==
    LET a == userAuth(token, now)
        req == [Gated("PUT /users/account", "user", token, a) EXCEPT !.raw = raw]
        found == findByPk(Users, a.userId)
        refused == AccountError(raw, found)
        body == AccountValues(raw)
        error == UserUpdateError(body, Users)
    IN /\ IF ~a.pass
            THEN /\ last' = req
                 /\ Users' = Users
          ELSE IF refused # NoErr
            THEN /\ last' = [req EXCEPT !.handlerRan = TRUE, !.err = refused,
                                        !.res = failure(refused)]
                 /\ Users' = Users
          ELSE IF error # NoErr
            THEN /\ last' = [req EXCEPT !.handlerRan = TRUE, !.body = body, !.err = error,
                                        !.res = failure(error)]
                 /\ Users' = Users
          ELSE LET user == Updated(CHOOSE u \in found : TRUE, body, salt)
               IN /\ Users' = Saved(Users, user)
                  /\ last' = [req EXCEPT !.handlerRan = TRUE, !.body = body,
                                !.res = success("Update successfully",
                                                [user |-> WithoutPassword(user)], 200)]
       /\ UNCHANGED <<nextUserId, now, held, catalog>>

\* Passwords around the two length limits: missing, empty, 5, 6, 45 and 46
\* characters.
Pw5 == "abcde"
Pw6 == "abcdef"
Pw45 == "abcdefghijabcdefghijabcdefghijabcdefghijabcde"
Pw46 == "abcdefghijabcdefghijabcdefghijabcdefghijabcdef"

LimitPasswords == {NULL, "", Pw5, Pw6, Pw45, Pw46}

PasswordSignUpBodies ==
    [email : {"a@b.com"}, username : {"alice"}, nickname : Nicknames,
     password : LimitPasswords, sex : {UNDEF}, role : {UNDEF}]

PasswordAdminBodies ==
    [email : {"c@d.com"}, username : {"carol"}, nickname : Nicknames,
     password : {"", Pw5, Pw45}, sex : {1}, role : {ROLE_NORMAL}]

PasswordUpdateBodies ==
    [email : {NULL}, username : {NULL}, nickname : {NULL},
     password : {NULL, Pw6, Pw46}, sex : {UNDEF}, role : {UNDEF}]

\* Account bodies: the confirmation repeats the new password or differs from it.
AccountBodies ==
    {[email |-> e, username |-> NULL, currentPassword |-> c, password |-> p,
      passwordConfirmation |-> q] :
        e \in {"new@gmail.com"}, c \in {NULL, "123123", Pw6},
        p \in LimitPasswords \ {Pw45}, q \in {Pw6, Pw46}}
    \cup {[email |-> NULL, username |-> NULL, currentPassword |-> c, password |-> p,
           passwordConfirmation |-> p] : c \in {"123123", Pw6}, p \in LimitPasswords}

\* What a client sends in the token header: nothing, or the token it holds.
OwnTokens == {NoToken, held}

NextPasswords ==
    \/ AdminSignIn("admin", "123123")
    \/ AdminSignIn("admin", Pw6)
    \/ \E raw \in PasswordSignUpBodies, salt \in Salts : SignUp(raw, salt)
    \/ \E token \in OwnTokens, raw \in PasswordAdminBodies, salt \in Salts :
          AdminCreateUser(token, raw, salt)
    \/ \E token \in OwnTokens, raw \in PasswordUpdateBodies, salt \in Salts :
          AdminUpdateUser(token, 2, raw, salt)
    \/ \E token \in OwnTokens, raw \in AccountBodies, salt \in Salts :
          PutUsersAccount(token, raw, salt)

SpecPasswords == Init /\ [][NextPasswords]_vars

(***************************************************************************)
(* GET /admin/chapters behind the admin middleware.  The handler requires  *)
(* courseId, sets condition.where to the courseId predicate and then, when *)
(* a title is given, assigns condition.where again.                        *)
(***************************************************************************)
ChapterFilter(query) ==
    IF Truthy(query.title)
      THEN {[field |-> "title", op |-> "like", value |-> query.title]}
      ELSE {[field |-> "courseId", op |-> "eq", value |-> query.courseId]}

GetAdminChapters(token, query) ==
    LET a == adminAuth(token, now, Users)
        req == [Gated("GET /admin/chapters", "admin", token, a) EXCEPT !.raw = query]
        error == Err("Error", "Failed to get chapters, courseId is required")
    IN /\ last' = IF ~a.pass THEN req
                  ELSE IF ~Truthy(query.courseId)
                    THEN [req EXCEPT !.handlerRan = TRUE, !.err = error, !.res = failure(error)]
                  ELSE Listed(req, "Query successful", Chapters,
                              Condition(query, ChapterFilter(query)), "rank ASC, id ASC")
       /\ UNCHANGED <<Users, nextUserId, now, held, catalog>>

ChapterQueries ==
    [currentPage : {Absent}, pageSize : {Absent, <<"1">>},
     courseId : {Absent, <<>>, <<"1">>, <<"2">>, <<"5">>},
     title : {Absent, <<"S">>, <<"H">>}]

NextChapters ==
    \/ AdminSignIn("admin", "123123")
    \/ SignIn("user1", "123123")
    \/ \E token \in TokenHeaders, query \in ChapterQueries : GetAdminChapters(token, query)

SpecChapters == Init /\ [][NextChapters]_vars

(***************************************************************************)
(* The courses and categories of the admin surface (routes/admin/courses.js *)
(* and routes/admin/categories.js) and the public course page              *)
(* (routes/courses.js).  A name that a module uses without importing it    *)
(* raises a ReferenceError when the statement is reached; the handler's    *)
(* catch hands it to failure().                                            *)
(***************************************************************************)
AdminCoursesImports == {"Course", "Category", "User", "Op", "NotFoundError", "success", "failure"}

CoursesImports == {"Course", "Category", "Chapter", "User", "success", "failure"}

ReferenceError(name) == Err("ReferenceError", name)

\* models/course.js, the validators of categoryId and name.  A key that is
\* undefined is not validated by update(); create() reports it as missing.
CategoryIdErrors(value, categories) ==
    IF value = UNDEF THEN <<"Category ID is required.">>
    ELSE IF findByPk(categories, value) = {} THEN <<"Course with ID not exists.">>
    ELSE <<>>

NameErrors(value) ==
    IF value = Absent THEN <<"Name is required.">>
    ELSE IF value = <<>> THEN <<"Name cannot be empty.">>
    ELSE IF Len(value) < 2 \/ Len(value) > 45
      THEN <<"Length of name must be between 2 ~ 45 characters.">>
    ELSE <<>>

ValidationError(errors) ==
    IF errors = <<>> THEN NoErr
    ELSE [name |-> "SequelizeValidationError", message |-> "Validation error", errors |-> errors]

CourseCreateError(body, categories) ==
    ValidationError(CategoryIdErrors(body.categoryId, categories) \o NameErrors(body.name))

CourseUpdateError(values, categories) ==
    ValidationError(
        (IF values.categoryId = UNDEF THEN <<>> ELSE CategoryIdErrors(values.categoryId, categories))
        \o (IF values.name = Absent THEN <<>> ELSE NameErrors(values.name)))

CourseFilterBody(raw) == [categoryId |-> raw.categoryId, name |-> raw.name]

\* GET /courses/:id
GetCourse(id) ==
    LET req == [Idle EXCEPT !.route = "GET /courses/:id", !.handlerRan = TRUE, !.raw = [id |-> id]]
        found == findByPk(Courses, id)
        error == IF "NotFoundError" \in CoursesImports
                   THEN Err("NotFoundError", "Course with ID is not found.")
                   ELSE ReferenceError("NotFoundError is not defined")
    IN /\ last' = IF found = {}
                    THEN [req EXCEPT !.err = error, !.res = failure(error)]
                    ELSE [req EXCEPT !.res = success("Course Details Found!",
                                                [course |-> CHOOSE c \in found : TRUE], 200)]
       /\ UNCHANGED <<Users, nextUserId, now, held, catalog>>

\* POST /admin/courses
PostAdminCourses(token, raw) ==
    LET a == adminAuth(token, now, Users)
        req == [Gated("POST /admin/courses", "admin", token, a) EXCEPT !.raw = raw]
        body == CourseFilterBody(raw)
        error == CourseCreateError(body, Categories)
        course == CourseRow(nextCourseId, body.categoryId, a.user.id, body.name)
    IN IF ~a.pass
         THEN /\ last' = req
              /\ UNCHANGED <<Users, nextUserId, now, held, catalog>>
       ELSE IF error = NoErr
         THEN /\ nextCourseId <= MaxCourseId
              /\ Courses' = Courses \cup {course}
              /\ nextCourseId' = nextCourseId + 1
              /\ last' = [req EXCEPT !.handlerRan = TRUE, !.body = body,
                                     !.res = success("Query successful", [course |-> course], 201)]
              /\ UNCHANGED <<Users, nextUserId, now, held, Likes, Categories, Chapters, pending, inflight, kept>>
       ELSE /\ last' = [req EXCEPT !.handlerRan = TRUE, !.body = body, !.err = error,
                                   !.res = failure(error)]
            /\ UNCHANGED <<Users, nextUserId, now, held, catalog>>

\* DELETE /admin/courses/:id
DeleteAdminCourse(token, id) ==
    LET a == adminAuth(token, now, Users)
        req == [Gated("DELETE /admin/courses/:id", "admin", token, a) EXCEPT !.raw = [id |-> id]]
        found == findByPk(Courses, id)
        missing == Err("NotFoundError", "Course with ID not exists.")
        count == Cardinality({c \in Chapters : c.courseId = id})
        error == IF "Chapter" \notin AdminCoursesImports
                   THEN ReferenceError("Chapter is not defined")
                 ELSE IF count > 0
                   THEN Err("Error", "Delete failed, the course has associated chapters.")
                 ELSE NoErr
    IN IF ~a.pass
         THEN /\ last' = req
              /\ UNCHANGED <<Users, nextUserId, now, held, catalog>>
       ELSE IF found = {}
         THEN /\ last' = [req EXCEPT !.handlerRan = TRUE, !.err = missing, !.res = failure(missing)]
              /\ UNCHANGED <<Users, nextUserId, now, held, catalog>>
       ELSE IF error # NoErr
         THEN /\ last' = [req EXCEPT !.handlerRan = TRUE, !.err = error, !.res = failure(error)]
              /\ UNCHANGED <<Users, nextUserId, now, held, catalog>>
       ELSE /\ Courses' = Courses \ found
            /\ last' = [req EXCEPT !.handlerRan = TRUE,
                                   !.res = success("Successfully deleted course", NoData, 200)]
            /\ UNCHANGED <<Users, nextUserId, now, held, Likes, shelf>>

\* PUT /admin/courses/:id
PutAdminCourse(token, id, raw) ==
    LET a == adminAuth(token, now, Users)
        req == [Gated("PUT /admin/courses/:id", "admin", token, a)
                  EXCEPT !.raw = [id |-> id, categoryId |-> raw.categoryId, name |-> raw.name]]
        found == findByPk(Courses, id)
        missing == Err("NotFoundError", "Course with ID not exists.")
        body == CourseFilterBody(raw)
        error == CourseUpdateError(body, Categories)
    IN IF ~a.pass
         THEN /\ last' = req
              /\ UNCHANGED <<Users, nextUserId, now, held, catalog>>
       ELSE IF found = {}
         THEN /\ last' = [req EXCEPT !.handlerRan = TRUE, !.err = missing, !.res = failure(missing)]
              /\ UNCHANGED <<Users, nextUserId, now, held, catalog>>
       ELSE IF error # NoErr
         THEN /\ last' = [req EXCEPT !.handlerRan = TRUE, !.body = body, !.err = error,
                                     !.res = failure(error)]
              /\ UNCHANGED <<Users, nextUserId, now, held, catalog>>
       ELSE LET course == CHOOSE c \in found : TRUE
                updated == [course EXCEPT
                              !.categoryId = IF body.categoryId = UNDEF THEN @ ELSE body.categoryId,
                              !.name = IF body.name = Absent THEN @ ELSE body.name]
            IN /\ Courses' = Saved(Courses, updated)
               /\ last' = [req EXCEPT !.handlerRan = TRUE, !.body = body,
                                      !.res = success("Query successful", [course |-> updated], 200)]
               /\ UNCHANGED <<Users, nextUserId, now, held, Likes, shelf>>

\* DELETE /admin/categories/:id
DeleteAdminCategory(token, id) ==
    LET a == adminAuth(token, now, Users)
        req == [Gated("DELETE /admin/categories/:id", "admin", token, a) EXCEPT !.raw = [id |-> id]]
        found == findByPk(Categories, id)
        missing == Err("NotFoundError", "Category with ID is not found.")
        count == Cardinality({c \in Courses : c.categoryId = id})
        error == Err("Error", "Delete failed, this category has courses.")
    IN IF ~a.pass
         THEN /\ last' = req
              /\ UNCHANGED <<Users, nextUserId, now, held, catalog>>
       ELSE IF found = {}
         THEN /\ last' = [req EXCEPT !.handlerRan = TRUE, !.err = missing, !.res = failure(missing)]
              /\ UNCHANGED <<Users, nextUserId, now, held, catalog>>
       ELSE IF count > 0
         THEN /\ last' = [req EXCEPT !.handlerRan = TRUE, !.err = error, !.res = failure(error)]
              /\ UNCHANGED <<Users, nextUserId, now, held, catalog>>
       ELSE /\ Categories' = Categories \ found
            /\ last' = [req EXCEPT !.handlerRan = TRUE,
                                   !.res = success("Delete successful", NoData, 200)]
            /\ UNCHANGED <<Users, nextUserId, now, held, Courses, Likes, Chapters, pending,
                           nextCourseId, inflight, kept>>

CourseIds == {1, 3, 99}

CategoryIds == {1, 2, 99}

CourseBodies == [categoryId : {UNDEF, 1, 2, 99}, name : {Absent, <<"G", "O">>}]

AdminTokens == {NoToken, held}

NextCatalog ==
    \/ AdminSignIn("admin", "123123")
    \/ SignIn("user1", "123123")
    \/ \E id \in CourseIds : GetCourse(id)
    \/ \E token \in AdminTokens, raw \in CourseBodies : PostAdminCourses(token, raw)
    \/ \E token \in AdminTokens, id \in CourseIds : DeleteAdminCourse(token, id)
    \/ \E token \in AdminTokens, id \in CourseIds, raw \in CourseBodies : PutAdminCourse(token, id, raw)
    \/ \E token \in AdminTokens, id \in CategoryIds : DeleteAdminCategory(token, id)

SpecCatalog == Init /\ [][NextCatalog]_vars

(***************************************************************************)
(* The filters of GET /admin/users and GET /admin/courses.  Each handler   *)
(* tests its filter parameters one after the other and assigns             *)
(* condition.where anew for every one that is truthy.                      *)
(***************************************************************************)
Eq(field, value) == [field |-> field, op |-> "eq", value |-> value]

Contains(field, value) == [field |-> field, op |-> "like", value |-> value]

IsTrue(s) == IF s = <<"t", "r", "u", "e">> THEN <<"1">> ELSE <<"0">>

UsersFilter(query) ==
    LET none == {}
        email == IF ~Falsy(query.email) THEN {Eq("email", query.email)} ELSE none
        username == IF ~Falsy(query.username) THEN {Eq("username", query.username)} ELSE email
        nickname == IF ~Falsy(query.nickname) THEN {Contains("nickname", query.nickname)} ELSE username
        role == IF Truthy(query.role) THEN {Eq("role", query.role)} ELSE nickname
    IN role

CoursesFilter_accumulates(query) ==
    LET none == {}
        categoryId == IF Truthy(query.categoryId)
                        THEN none \cup {Eq("categoryId", query.categoryId)} ELSE none
        userId == IF Truthy(query.userId) THEN categoryId \cup {Eq("userId", query.userId)} ELSE categoryId
        name == IF Truthy(query.name) THEN userId \cup {Contains("name", query.name)} ELSE userId
        recommended == IF Truthy(query.recommended)
                         THEN name \cup {Eq("recommended", IsTrue(query.recommended))} ELSE name
        introductory == IF Truthy(query.introductory)
                          THEN recommended \cup {Eq("introductory", IsTrue(query.introductory))}
                          ELSE recommended
    IN introductory

CoursesFilter(query) ==
    LET none == {}
        categoryId == IF Truthy(query.categoryId) THEN {Eq("categoryId", query.categoryId)} ELSE none
        userId == IF Truthy(query.userId) THEN {Eq("userId", query.userId)} ELSE categoryId
        name == IF Truthy(query.name) THEN {Contains("name", query.name)} ELSE userId
        recommended == IF Truthy(query.recommended)
                         THEN {Eq("recommended", IsTrue(query.recommended))} ELSE name
        introductory == IF Truthy(query.introductory)
                          THEN {Eq("introductory", IsTrue(query.introductory))} ELSE recommended
    IN introductory

GetAdminUsers(token, query) ==
    LET a == adminAuth(token, now, Users)
        req == [Gated("GET /admin/users", "admin", token, a) EXCEPT !.raw = query]
    IN /\ last' = IF ~a.pass THEN req
                  ELSE Listed(req, "Query successful", Users,
                              Condition(query, UsersFilter(query)), "id DESC")
       /\ UNCHANGED <<Users, nextUserId, now, held, catalog>>

GetAdminCourses(token, query) ==
    LET a == adminAuth(token, now, Users)
        req == [Gated("GET /admin/courses", "admin", token, a) EXCEPT !.raw = query]
    IN /\ last' = IF ~a.pass THEN req
                  ELSE Listed(req, "Query successful", Courses,
                              Condition(query, CoursesFilter(query)), "id DESC")
       /\ UNCHANGED <<Users, nextUserId, now, held, catalog>>

UserQueries ==
    [currentPage : {Absent}, pageSize : {Absent},
     email : {NULL, "", "user1@gmail.com"}, username : {NULL, "user2"},
     nickname : {NULL, "", "user"}, role : {Absent, <<>>, <<"0">>, <<"1", "0", "0">>}]

CourseQueries ==
    [currentPage : {Absent}, pageSize : {Absent},
     categoryId : {Absent, <<"1">>}, userId : {Absent, <<>>, <<"2">>},
     name : {Absent, <<"J">>}, recommended : {Absent, <<"t", "r", "u", "e">>},
     introductory : {Absent, <<>>, <<"f", "a", "l", "s", "e">>}]

NextFilters ==
    \/ AdminSignIn("admin", "123123")
    \/ \E token \in AdminTokens, query \in UserQueries : GetAdminUsers(token, query)
    \/ \E token \in AdminTokens, query \in CourseQueries : GetAdminCourses(token, query)

SpecFilters == Init /\ [][NextFilters]_vars

(***************************************************************************)
(* POST /likes, one data-layer call at a time.  The handler awaits         *)
(* Course.findByPk, Like.findOne, Like.create or like.destroy, and         *)
(* course.increment or course.decrement; between two of these calls any    *)
(* other request may run.  Each call is one statement for the database:    *)
(* increment and decrement add to the stored counter, destroy deletes the  *)
(* row that findOne returned, if it is still there.                        *)
(***************************************************************************)
Suspend(s, r) == inflight' = [inflight EXCEPT ![s] = r]

LikeOf(s) == LikeRow(inflight[s].courseId, inflight[s].userId)

\* The trace of the request in slot s once it has answered with res.
Answered(s, res) ==
    [Gated(inflight[s].op, "user", inflight[s].token, userAuth(inflight[s].token, now))
       EXCEPT !.handlerRan = TRUE, !.raw = [courseId |-> inflight[s].courseId], !.res = res]

\* No new request is taken while a counter or the Likes table has drifted
\* MaxDrift away from the seeded state.
WithinDrift ==
    /\ \A c \in Courses : c.likesCount <= MaxDrift /\ c.likesCount >= -MaxDrift
    /\ BagCardinality(Likes) <= MaxDrift

\* The middleware, then line 82.
LikeFindCourse(s, token, courseId) ==
    LET a == userAuth(token, now)
        req == [Gated("POST /likes", "user", token, a) EXCEPT !.raw = [courseId |-> courseId]]
        error == Err("NotFoundError", "Course not exists")
        r == [NoRequest EXCEPT !.op = "POST /likes", !.token = token, !.userId = a.userId,
                               !.courseId = courseId]
    IN /\ inflight[s] = NoRequest
       /\ WithinDrift
       /\ IF ~a.pass
            THEN /\ Suspend(s, [r EXCEPT !.res = req.res])
                 /\ last' = req
          ELSE IF findByPk(Courses, courseId) = {}
            THEN /\ Suspend(s, [r EXCEPT !.res = failure(error)])
                 /\ last' = [req EXCEPT !.handlerRan = TRUE, !.err = error, !.res = failure(error)]
          ELSE /\ Suspend(s, [r EXCEPT !.pc = "findOne"])
               /\ UNCHANGED last
       /\ UNCHANGED <<Users, nextUserId, now, held, Courses, Likes, Categories, Chapters,
                      pending, nextCourseId, kept>>

\* Line 87.
LikeFindOne(s) ==
    /\ inflight[s].pc = "findOne"
    /\ Suspend(s, [inflight[s] EXCEPT !.liked = BagIn(LikeOf(s), Likes),
                                      !.pc = IF BagIn(LikeOf(s), Likes) THEN "destroy" ELSE "create"])
    /\ UNCHANGED <<Users, nextUserId, now, held, last, Courses, Likes, Categories, Chapters,
                   pending, nextCourseId, kept>>

\* Line 94.
LikeCreate(s) ==
    /\ inflight[s].pc = "create"
    /\ Likes' = Likes (+) SetToBag({LikeOf(s)})
    /\ Suspend(s, [inflight[s] EXCEPT !.pc = "increment"])
    /\ UNCHANGED <<Users, nextUserId, now, held, last, Courses, Categories, Chapters,
                   pending, nextCourseId, kept>>

\* Lines 95-96.
LikeIncrement(s) ==
    /\ inflight[s].pc = "increment"
    /\ Courses' = {IF c.id = inflight[s].courseId THEN increment(c) ELSE c : c \in Courses}
    /\ Suspend(s, [inflight[s] EXCEPT !.pc = "done",
                                      !.res = success("Liked successfully.", NoData, 200)])
    /\ last' = Answered(s, success("Liked successfully.", NoData, 200))
    /\ UNCHANGED <<Users, nextUserId, now, held, Likes, Categories, Chapters, pending, nextCourseId, kept>>

\* Another request that is about to destroy a row of the same user and
\* course, a row that is still stored.
HoldsSameLike(t, s) ==
    /\ t # s
    /\ inflight[t].pc = "destroy"
    /\ ~inflight[t].gone
    /\ LikeOf(t) = LikeOf(s)

\* Line 99.  findOne has no ORDER BY, so when several rows match, which one
\* each request got is the database's choice: the row destroyed here may or
\* may not be the row another request holds, unless it is the only one.
LikeDestroy(s) ==
    /\ inflight[s].pc = "destroy"
    /\ IF inflight[s].gone
         THEN /\ Suspend(s, [inflight[s] EXCEPT !.pc = "decrement"])
              /\ UNCHANGED Likes
         ELSE /\ Likes' = Likes (-) SetToBag({LikeOf(s)})
              /\ \E same \in (IF CopiesIn(LikeOf(s), Likes) = 1 THEN {TRUE} ELSE {TRUE, FALSE}) :
                   inflight' = [t \in Slots |->
                                  IF t = s THEN [inflight[s] EXCEPT !.pc = "decrement"]
                                  ELSE IF HoldsSameLike(t, s) THEN [inflight[t] EXCEPT !.gone = same]
                                  ELSE inflight[t]]
    /\ UNCHANGED <<Users, nextUserId, now, held, last, Courses, Categories, Chapters,
                   pending, nextCourseId, kept>>

\* Lines 100-101.
LikeDecrement(s) ==
    /\ inflight[s].pc = "decrement"
    /\ Courses' = {IF c.id = inflight[s].courseId THEN decrement(c) ELSE c : c \in Courses}
    /\ Suspend(s, [inflight[s] EXCEPT !.pc = "done",
                                      !.res = success("Unliked successfully.", NoData, 200)])
    /\ last' = Answered(s, success("Unliked successfully.", NoData, 200))
    /\ UNCHANGED <<Users, nextUserId, now, held, Likes, Categories, Chapters, pending, nextCourseId, kept>>

\* The connection of a request that has answered is closed.
Recycle(s) ==
    /\ inflight[s].pc = "done"
    /\ inflight[s] # NoRequest
    /\ Suspend(s, NoRequest)
    /\ UNCHANGED <<Users, nextUserId, now, held, last, Courses, Likes, Categories, Chapters,
                   pending, nextCourseId, kept>>

RaceCourseIds == {1, 99}

LikeSteps(s) ==
    \/ LikeFindOne(s)
    \/ LikeCreate(s)
    \/ LikeIncrement(s)
    \/ LikeDestroy(s)
    \/ LikeDecrement(s)

\* Two requests, each sent once.
NextLikeRace ==
    \/ SignIn("user1", "123123")
    \/ SignIn("user2", "123123")
    \/ \E s \in Slots, token \in OwnTokens, courseId \in RaceCourseIds : LikeFindCourse(s, token, courseId)
    \/ \E s \in Slots : LikeSteps(s)

SpecLikeRace == Init /\ [][NextLikeRace]_vars

\* Any number of requests, two at a time.
NextLikesRace ==
    \/ SignIn("user1", "123123")
    \/ \E s \in Slots, token \in OwnTokens, courseId \in RaceCourseIds : LikeFindCourse(s, token, courseId)
    \/ \E s \in Slots : LikeSteps(s)
    \/ \E s \in Slots : Recycle(s)

SpecLikesRace == Init /\ [][NextLikesRace]_vars

(***************************************************************************)
(* Roles over time.  The client may put the token it holds aside and send  *)
(* it again later, after it has signed in as somebody else.                *)
(***************************************************************************)
Stash ==
    /\ held # NoToken
    /\ kept' = held
    /\ last' = Idle
    /\ UNCHANGED <<Users, nextUserId, now, held, Courses, Likes, Categories, Chapters, pending,
                   nextCourseId, inflight>>

RoleBodies ==
    [email : {NULL}, username : {NULL}, nickname : {NULL}, password : {NULL},
     sex : {UNDEF}, role : {ROLE_NORMAL, ROLE_ADMIN}]

KeptTokens == {NoToken, held, kept}

RoleUserIds == {1, 2}

NextRoles ==
    \/ SignIn("user1", "123123")
    \/ AdminSignIn("admin", "123123")
    \/ Stash
    \/ \E token \in KeptTokens, id \in RoleUserIds : AdminGetUser(token, id)
    \/ \E token \in KeptTokens, id \in RoleUserIds, raw \in RoleBodies, salt \in Salts :
         AdminUpdateUser(token, id, raw, salt)
    \/ TickLifetime

SpecRoles == Init /\ [][NextRoles]_vars

(***************************************************************************)
(* PUT /users/info behind the user middleware (routes/users.js), and the   *)
(* end-user surface as a whole: sign-up, sign-in, GET /users/me,           *)
(* PUT /users/info, PUT /users/account and the likes.                      *)
(***************************************************************************)
InfoValues_passesRole(raw) ==
    [email |-> NULL, username |-> NULL, nickname |-> raw.nickname, password |-> NULL,
     sex |-> raw.sex, role |-> raw.role]

\* The keys of the info body that are columns of the model.
InfoValues(raw) ==
    [email |-> NULL, username |-> NULL, nickname |-> raw.nickname, password |-> NULL,
     sex |-> raw.sex, role |-> UNDEF]

PutUsersInfo(token, raw, salt) ==
    LET a == userAuth(token, now)
        req == [Gated("PUT /users/info", "user", token, a) EXCEPT !.raw = raw]
        found == findByPk(Users, a.userId)
        missing == Err("NotFoundError", "User with ID is not found.")
        body == InfoValues(raw)
        error == UserUpdateError(body, Users)
    IN /\ IF ~a.pass
            THEN /\ last' = req
                 /\ Users' = Users
          ELSE IF found = {}
            THEN /\ last' = [req EXCEPT !.handlerRan = TRUE, !.err = missing,
                                        !.res = failure(missing)]
                 /\ Users' = Users
          ELSE IF error # NoErr
            THEN /\ last' = [req EXCEPT !.handlerRan = TRUE, !.body = body, !.err = error,
                                        !.res = failure(error)]
                 /\ Users' = Users
          ELSE LET user == Updated(CHOOSE u \in found : TRUE, body, salt)
               IN /\ Users' = Saved(Users, user)
                  /\ last' = [req EXCEPT !.handlerRan = TRUE, !.body = body,
                                !.res = success("User information updated.",
                                                [user |-> WithoutPassword(user)], 200)]
       /\ UNCHANGED <<nextUserId, now, held, catalog>>

\* Bodies that ask for the administrator role next to the regular fields.
GreedySignUpBodies ==
    [email : {"a@b.com"}, username : {"alice", "admin"}, nickname : Nicknames,
     password : {"abcdef"}, sex : {1}, role : {ROLE_ADMIN}]

GreedyInfoBodies == [nickname : {"Al"}, sex : {1, 7}, role : {ROLE_ADMIN}]

GreedyAccountBodies ==
    [email : {NULL}, username : {"bob"}, currentPassword : {"123123", "abcdef"},
     password : {NULL}, passwordConfirmation : {NULL}, role : {ROLE_ADMIN}]

EndUserLogins == {"user1", "alice"}

EndUserPasswords == {"123123", "abcdef"}

InitEndUser ==
    Booted /\ pending = [currentPage |-> Absent, pageSize |-> Absent, name |-> Absent]

NextEndUser ==
    \/ \E raw \in GreedySignUpBodies, salt \in Salts : SignUp(raw, salt)
    \/ \E login \in EndUserLogins, password \in EndUserPasswords : SignIn(login, password)
    \/ \E token \in OwnTokens : GetUsersMe(token)
    \/ \E token \in OwnTokens, raw \in GreedyInfoBodies, salt \in Salts : PutUsersInfo(token, raw, salt)
    \/ \E token \in OwnTokens, raw \in GreedyAccountBodies, salt \in Salts :
         PutUsersAccount(token, raw, salt)
    \/ \E token \in OwnTokens, courseId \in RaceCourseIds : PostLikes(token, courseId)
    \/ \E token \in OwnTokens : GetLikes(token)

SpecEndUser == InitEndUser /\ [][NextEndUser]_vars

(***************************************************************************)
(* User.create, one data-layer call at a time.  The validators of the      *)
(* model look the email and the username up; the INSERT is a later call,   *)
(* and another request may insert in between.  The Users table has a       *)
(* unique index on email and one on username (migration create-user), so   *)
(* the INSERT of a duplicate is refused by the database.                   *)
(***************************************************************************)
UniqueIndexError_noIndex(row, table) == NoErr

UniqueIndexError(row, table) ==
    IF \E u \in table : u.email = row.email \/ u.username = row.username
      THEN Err("SequelizeUniqueConstraintError", "Validation error")
      ELSE NoErr

\* The failure path of the router that handles op.
FailureOf(op, error) ==
    IF op = "POST /admin/users" THEN response_failure(error) ELSE failure(error)

\* The middleware of the route, the body the handler builds, and the
\* build-and-validate part of User.create.
UserCreateValidate(s, op, token, raw, salt) ==
    LET admin == op = "POST /admin/users"
        a == adminAuth(token, now, Users)
        req == IF admin THEN [Gated(op, "admin", token, a) EXCEPT !.raw = raw]
               ELSE [Idle EXCEPT !.route = op, !.raw = raw]
        body == IF admin THEN filterBody(raw) ELSE SignUpBody(raw)
        error == UserCreateError(body, Users)
        r == [NoRequest EXCEPT !.op = op, !.token = token, !.body = body, !.salt = salt]
    IN /\ inflight[s] = NoRequest
       /\ IF admin /\ ~a.pass
            THEN /\ Suspend(s, [r EXCEPT !.res = req.res])
                 /\ last' = req
          ELSE IF error # NoErr
            THEN /\ Suspend(s, [r EXCEPT !.res = FailureOf(op, error)])
                 /\ last' = [req EXCEPT !.handlerRan = TRUE, !.body = body, !.err = error,
                                        !.res = FailureOf(op, error)]
          ELSE /\ Suspend(s, [r EXCEPT !.pc = "insert"])
               /\ UNCHANGED last
       /\ UNCHANGED <<Users, nextUserId, now, held, Courses, Likes, Categories, Chapters,
                      pending, nextCourseId, kept>>

\* The INSERT statement of User.create and the response.
UserCreateInsert(s) ==
    LET r == inflight[s]
        user == UserRow(nextUserId, r.body, r.salt)
        error == UniqueIndexError(user, Users)
        req == [Idle EXCEPT !.route = r.op, !.token = r.token, !.handlerRan = TRUE, !.body = r.body]
        created == IF r.op = "POST /admin/users"
                     THEN success("Query successful", [user |-> user], 201)
                     ELSE success("User is created successfully!", [user |-> WithoutPassword(user)], 201)
    IN /\ r.pc = "insert"
       /\ IF error # NoErr
            THEN /\ Suspend(s, [r EXCEPT !.pc = "done", !.res = FailureOf(r.op, error)])
                 /\ last' = [req EXCEPT !.err = error, !.res = FailureOf(r.op, error)]
                 /\ UNCHANGED <<Users, nextUserId>>
            ELSE /\ nextUserId <= MaxUserId
                 /\ Users' = Users \cup {user}
                 /\ nextUserId' = nextUserId + 1
                 /\ Suspend(s, [r EXCEPT !.pc = "done", !.res = created])
                 /\ last' = [req EXCEPT !.res = created]
       /\ UNCHANGED <<now, held, Courses, Likes, Categories, Chapters, pending, nextCourseId, kept>>

\* PUT /admin/users/:id up to the validators of user.update(body).
UserUpdateValidate(s, token, id, raw, salt) ==
    LET op == "PUT /admin/users/:id"
        a == adminAuth(token, now, Users)
        req == [Gated(op, "admin", token, a) EXCEPT !.raw = raw]
        found == findByPk(Users, id)
        missing == Err("NotFoundError", "ID not found")
        body == filterBody(raw)
        error == UserUpdateError(body, Users)
        r == [NoRequest EXCEPT !.op = op, !.token = token, !.userId = id, !.body = body,
                               !.salt = salt]
    IN /\ inflight[s] = NoRequest
       /\ IF ~a.pass
            THEN /\ Suspend(s, [r EXCEPT !.res = req.res])
                 /\ last' = req
          ELSE IF found = {}
            THEN /\ Suspend(s, [r EXCEPT !.res = response_failure(missing)])
                 /\ last' = [req EXCEPT !.handlerRan = TRUE, !.err = missing,
                                        !.res = response_failure(missing)]
          ELSE IF error # NoErr
            THEN /\ Suspend(s, [r EXCEPT !.res = response_failure(error)])
                 /\ last' = [req EXCEPT !.handlerRan = TRUE, !.body = body, !.err = error,
                                        !.res = response_failure(error)]
          ELSE /\ Suspend(s, [r EXCEPT !.pc = "update"])
               /\ UNCHANGED last
       /\ UNCHANGED <<Users, nextUserId, now, held, Courses, Likes, Categories, Chapters,
                      pending, nextCourseId, kept>>

\* The UPDATE statement of user.update(body) and the response.
UserUpdateWrite(s) ==
    LET r == inflight[s]
        row == CHOOSE u \in findByPk(Users, r.userId) : TRUE
        user == Updated(row, r.body, r.salt)
        error == UniqueIndexError(user, Users \ {row})
        req == [Idle EXCEPT !.route = r.op, !.token = r.token, !.handlerRan = TRUE, !.body = r.body]
        updated == success("Query successful", [user |-> user], 200)
    IN /\ r.pc = "update"
       /\ IF error # NoErr
            THEN /\ Suspend(s, [r EXCEPT !.pc = "done", !.res = response_failure(error)])
                 /\ last' = [req EXCEPT !.err = error, !.res = response_failure(error)]
                 /\ UNCHANGED Users
            ELSE /\ Users' = Saved(Users, user)
                 /\ Suspend(s, [r EXCEPT !.pc = "done", !.res = updated])
                 /\ last' = [req EXCEPT !.res = updated]
       /\ UNCHANGED <<nextUserId, now, held, Courses, Likes, Categories, Chapters, pending,
                      nextCourseId, kept>>

RenameBodies ==
    [email : {NULL, "a@b.com"}, username : {NULL, "alice"}, nickname : {NULL},
     password : {NULL}, sex : {UNDEF}, role : {ROLE_ADMIN}]

RenamedUserIds == {1}

RaceUserBodies ==
    [email : {"a@b.com"}, username : {"alice", "carol"}, nickname : Nicknames,
     password : {"abcdef"}, sex : {1}, role : {ROLE_NORMAL}]

NextUsersRace ==
    \/ AdminSignIn("admin", "123123")
    \/ \E s \in Slots, raw \in RaceUserBodies, salt \in Salts :
         UserCreateValidate(s, "POST /auth/sign_up", NoToken, raw, salt)
    \/ \E s \in Slots, token \in AdminTokens, raw \in RaceUserBodies, salt \in Salts :
         UserCreateValidate(s, "POST /admin/users", token, raw, salt)
    \/ \E s \in Slots : UserCreateInsert(s)
    \/ \E s \in Slots, token \in AdminTokens, id \in RenamedUserIds, raw \in RenameBodies, salt \in Salts :
         UserUpdateValidate(s, token, id, raw, salt)
    \/ \E s \in Slots : UserUpdateWrite(s)
    \/ \E s \in Slots : Recycle(s)

SpecUsersRace == Init /\ [][NextUsersRace]_vars

(***************************************************************************)
(* POST /admin/courses and DELETE /admin/categories/:id, one data-layer    *)
(* call at a time.  The isPresent validator of Course.categoryId and the   *)
(* Course.count of the category handler are lookups; the INSERT and the    *)
(* DELETE are later calls.  Course.init declares categoryId as a plain     *)
(* INTEGER without a reference to Categories.                              *)
(***************************************************************************)
\* POST /admin/courses up to the validators of Course.create(body).
CourseCreateValidate(s, token, raw) ==
    LET op == "POST /admin/courses"
        a == adminAuth(token, now, Users)
        req == [Gated(op, "admin", token, a) EXCEPT !.raw = raw]
        body == CourseFilterBody(raw)
        error == CourseCreateError(body, Categories)
        r == [NoRequest EXCEPT !.op = op, !.token = token]
    IN /\ inflight[s] = NoRequest
       /\ IF ~a.pass
            THEN /\ Suspend(s, [r EXCEPT !.res = req.res])
                 /\ last' = req
          ELSE IF error # NoErr
            THEN /\ Suspend(s, [r EXCEPT !.res = failure(error)])
                 /\ last' = [req EXCEPT !.handlerRan = TRUE, !.body = body, !.err = error,
                                        !.res = failure(error)]
          ELSE /\ Suspend(s, [r EXCEPT !.pc = "insert", !.userId = a.user.id,
                                       !.categoryId = body.categoryId, !.name = body.name])
               /\ UNCHANGED last
       /\ UNCHANGED <<Users, nextUserId, now, held, Courses, Likes, Categories, Chapters,
                      pending, nextCourseId, kept>>

\* The INSERT statement of Course.create and the response.
CourseCreateInsert(s) ==
    LET r == inflight[s]
        course == CourseRow(nextCourseId, r.categoryId, r.userId, r.name)
        req == [Idle EXCEPT !.route = r.op, !.token = r.token, !.handlerRan = TRUE,
                            !.raw = [categoryId |-> r.categoryId, name |-> r.name]]
        created == success("Query successful", [course |-> course], 201)
    IN /\ r.pc = "insert"
       /\ nextCourseId <= MaxCourseId
       /\ Courses' = Courses \cup {course}
       /\ nextCourseId' = nextCourseId + 1
       /\ Suspend(s, [r EXCEPT !.pc = "done", !.res = created])
       /\ last' = [req EXCEPT !.res = created]
       /\ UNCHANGED <<Users, nextUserId, now, held, Likes, Categories, Chapters, pending, kept>>

\* DELETE /admin/categories/:id: the middleware and getCategory.
CategoryDeleteFind(s, token, id) ==
    LET op == "DELETE /admin/categories/:id"
        a == adminAuth(token, now, Users)
        req == [Gated(op, "admin", token, a) EXCEPT !.raw = [id |-> id]]
        found == findByPk(Categories, id)
        missing == Err("NotFoundError", "Category with ID is not found.")
        r == [NoRequest EXCEPT !.op = op, !.token = token, !.categoryId = id]
    IN /\ inflight[s] = NoRequest
       /\ IF ~a.pass
            THEN /\ Suspend(s, [r EXCEPT !.res = req.res])
                 /\ last' = req
          ELSE IF found = {}
            THEN /\ Suspend(s, [r EXCEPT !.res = failure(missing)])
                 /\ last' = [req EXCEPT !.handlerRan = TRUE, !.err = missing,
                                        !.res = failure(missing)]
          ELSE /\ Suspend(s, [r EXCEPT !.pc = "count"])
               /\ UNCHANGED last
       /\ UNCHANGED <<Users, nextUserId, now, held, Courses, Likes, Categories, Chapters,
                      pending, nextCourseId, kept>>

\* Course.count({ where: { categoryId } }) and the refusal that follows it.
CategoryDeleteCount(s) ==
    LET r == inflight[s]
        count == Cardinality({c \in Courses : c.categoryId = r.categoryId})
        error == Err("Error", "Delete failed, this category has courses.")
        req == [Idle EXCEPT !.route = r.op, !.token = r.token, !.handlerRan = TRUE,
                            !.raw = [id |-> r.categoryId]]
    IN /\ r.pc = "count"
       /\ IF count > 0
            THEN /\ Suspend(s, [r EXCEPT !.pc = "done", !.res = failure(error)])
                 /\ last' = [req EXCEPT !.err = error, !.res = failure(error)]
            ELSE /\ Suspend(s, [r EXCEPT !.pc = "destroy"])
                 /\ UNCHANGED last
       /\ UNCHANGED <<Users, nextUserId, now, held, Courses, Likes, Categories, Chapters,
                      pending, nextCourseId, kept>>

\* category.destroy() and the response.
CategoryDeleteDestroy(s) ==
    LET r == inflight[s]
        req == [Idle EXCEPT !.route = r.op, !.token = r.token, !.handlerRan = TRUE,
                            !.raw = [id |-> r.categoryId]]
        deleted == success("Delete successful", NoData, 200)
    IN /\ r.pc = "destroy"
       /\ Categories' = Categories \ findByPk(Categories, r.categoryId)
       /\ Suspend(s, [r EXCEPT !.pc = "done", !.res = deleted])
       /\ last' = [req EXCEPT !.res = deleted]
       /\ UNCHANGED <<Users, nextUserId, now, held, Courses, Likes, Chapters, pending,
                      nextCourseId, kept>>

RaceCourseBodies == [categoryId : {2, 99}, name : {<<"G", "O">>}]

RaceCategoryIds == {1, 2, 99}

NextCategoryRace ==
    \/ AdminSignIn("admin", "123123")
    \/ \E s \in Slots, token \in AdminTokens, raw \in RaceCourseBodies :
         CourseCreateValidate(s, token, raw)
    \/ \E s \in Slots : CourseCreateInsert(s)
    \/ \E s \in Slots, token \in AdminTokens, id \in RaceCategoryIds :
         CategoryDeleteFind(s, token, id)
    \/ \E s \in Slots : CategoryDeleteCount(s)
    \/ \E s \in Slots : CategoryDeleteDestroy(s)
    \/ \E s \in Slots : Recycle(s)

SpecCategoryRace == Init /\ [][NextCategoryRace]_vars

(***************************************************************************)
(*                              PROPERTIES                                 *)
(***************************************************************************)
Failed(req) == req.err # NoErr

\* The handlers of routes/admin/users.js report through utils/response.js.
ViaResponseJs(req) ==
    req.handlerRan /\ req.route \in {"GET /admin/users/:id", "POST /admin/users"}

IsSuccess(req, code) ==
    Len(req.res) = 1 /\ req.res[1].status /\ req.res[1].code = code

IsFailure(req, code, message) ==
    /\ Len(req.res) = 1
    /\ ~req.res[1].status
    /\ req.res[1].code = code
    /\ req.res[1].message = message

InErrors(req, text) == \E i \in 1..Len(req.res[1].errors) : req.res[1].errors[i] = text

\* C1: every request that ends in an error gets exactly one response
\* written by the failure path, never none and never a second one.
C1_ExactlyOneResponse == Failed(last) => Len(last.res) = 1

\* C2: failure(res, error) maps each error category to its one outcome:
\* validation -> 400 'Validation error' with the field messages, not-found
\* -> 404 'Resource not exists', bad-request -> 400 'Wrong Request
\* Parameters', unauthorized -> 401 'Verification failed', malformed token
\* -> 401 ['Wrong Token'], expired token -> 401 ['Expired Token'], anything
\* else -> 500 'Internal server error'.
C2_FailureTable ==
    (Failed(last) /\ ~ViaResponseJs(last)) =>
        LET e == last.err
        IN CASE e.name = "SequelizeValidationError" ->
                  /\ IsFailure(last, 400, "Validation error")
                  /\ last.res[1].errors = e.errors /\ e.errors # <<>>
             [] e.name = "NotFoundError" ->
                  /\ IsFailure(last, 404, "Resource not exists")
                  /\ last.res[1].errors = <<e.message>>
             [] e.name = "BadRequestError" ->
                  /\ IsFailure(last, 400, "Wrong Request Parameters")
                  /\ last.res[1].errors = <<e.message>>
             [] e.name = "UnauthorizedError" ->
                  /\ IsFailure(last, 401, "Verification failed")
                  /\ last.res[1].errors = <<e.message>>
             [] e.name = "JsonWebTokenError" ->
                  /\ IsFailure(last, 401, "Verification failed")
                  /\ last.res[1].errors = <<"Wrong Token">>
             [] e.name = "TokenExpiredError" ->
                  /\ IsFailure(last, 401, "Verification failed")
                  /\ last.res[1].errors = <<"Expired Token">>
             [] OTHER ->
                  /\ IsFailure(last, 500, "Internal server error")
                  /\ last.res[1].errors = <<e.message>>

C2_Witness ==
    /\ last.err.name = "TokenExpiredError"
    /\ IsFailure(last, 401, "Verification failed")
    /\ last.res[1].errors = <<"Expired Token">>

\* The token header is missing, not a JWT, signed with another key, or past
\* its expiry at the time of the request.
TokenRejected(token) ==
    \/ token.kind # "jwt"
    \/ token.sig # SECRET
    \/ now >= token.exp

\* C3: on a gated route a request whose token is missing, malformed,
\* wrongly signed or expired never reaches the handler: the middleware
\* writes one 401 failure envelope and does not call next(); when the
\* middleware lets the request through it has written nothing and has
\* called next() exactly once.
C3_MiddlewareShortCircuits ==
    last.mw # "none" =>
        /\ TokenRejected(last.token) =>
              /\ ~last.handlerRan
              /\ last.nextCalled = 0
              /\ Len(last.mwRes) = 1
              /\ last.mwRes[1].code = 401 /\ ~last.mwRes[1].status
              /\ last.res = last.mwRes
        /\ (last.mw = "user" /\ ~TokenRejected(last.token)) => last.nextCalled = 1
        /\ last.nextCalled \in {0, 1}
        /\ last.nextCalled = 1 => (last.mwRes = <<>> /\ last.handlerRan)
        /\ last.nextCalled = 0 => (Len(last.mwRes) = 1 /\ ~last.handlerRan)

C3_Witness ==
    /\ last.mw = "user"
    /\ last.token.kind = "jwt" /\ last.token.sig = SECRET /\ now >= last.token.exp
    /\ last.nextCalled = 0 /\ ~last.handlerRan
    /\ IsFailure(last, 401, "Verification failed")

\* C4: on an admin-gated route a validly signed, unexpired token whose
\* subject has no user record, or whose user is not an administrator, is
\* answered 401 (never 500) and the handler does not run; the handler runs,
\* with the full user as req.user, only for an existing user of role 100.
C4_AdminOnly ==
    last.mw = "admin" =>
        /\ (/\ ~TokenRejected(last.token)
            /\ \A u \in findByPk(Users, last.token.userId) : u.role # ROLE_ADMIN) =>
              /\ IsFailure(last, 401, "Verification failed")
              /\ last.err.name = "UnauthorizedError"
              /\ ~last.handlerRan /\ last.nextCalled = 0
        /\ last.handlerRan =>
              /\ last.reqUser \in Users
              /\ last.reqUser.id = last.token.userId
              /\ last.reqUser.role = ROLE_ADMIN
              /\ ~TokenRejected(last.token)
        /\ (/\ ~TokenRejected(last.token)
            /\ \E u \in findByPk(Users, last.token.userId) : u.role = ROLE_ADMIN) =>
              last.handlerRan

C4_Witness ==
    /\ last.mw = "admin"
    /\ ~TokenRejected(last.token)
    /\ \E u \in findByPk(Users, last.token.userId) : u.role = ROLE_NORMAL
    /\ IsFailure(last, 401, "Verification failed")
    /\ InErrors(last, "Not authorized as admin.")
    /\ ~last.handlerRan

\* C5: a token issued by sign-in at time T expires at T + 30 days: both
\* middlewares accept it at every time up to T + 29 days and answer 401
\* 'Expired Token' at every time from T + 31 days on.
C5_ThirtyDayExpiry ==
    /\ (last.route \in {"POST /auth/sign_in", "POST /admin/auth/sign_in"} /\ ~Failed(last)) =>
          /\ IsSuccess(last, 200)
          /\ last.res[1].data.token.iat = now
          /\ last.res[1].data.token.exp = now + 30
          /\ held = last.res[1].data.token
    /\ held.kind = "jwt" => held.exp = held.iat + 30
    /\ (last.mw # "none" /\ last.token.kind = "jwt" /\ last.token.sig = SECRET) =>
          /\ now <= last.token.iat + 29 =>
                /\ last.err.name \notin {"TokenExpiredError", "JsonWebTokenError"}
                /\ last.mw = "user" => (last.nextCalled = 1 /\ last.reqUserId = last.token.userId)
                /\ (last.mw = "admin" /\ \E u \in findByPk(Users, last.token.userId) : u.role = ROLE_ADMIN)
                      => last.nextCalled = 1
          /\ now >= last.token.iat + 31 =>
                /\ IsFailure(last, 401, "Verification failed")
                /\ last.res[1].errors = <<"Expired Token">>
                /\ last.nextCalled = 0 /\ ~last.handlerRan

C5_Witness ==
    /\ last.mw = "admin"
    /\ last.token.kind = "jwt" /\ last.token.sig = SECRET
    /\ now = last.token.iat + 31
    /\ last.res[1].errors = <<"Expired Token">>

\* C6: every response body satisfies the envelope invariant: status=true
\* implies a 2xx code (200 or 201 for the handlers' success calls) and no
\* errors field; status=false implies no data field.
C6_EnvelopeInvariant ==
    \A i \in 1..Len(last.res) :
        LET r == last.res[i]
        IN /\ r.status => (r.code \in {200, 201} /\ "errors" \notin r.fields /\ "data" \in r.fields)
           /\ ~r.status => ("data" \notin r.fields /\ r.code \notin 200..299)

C6_Witness ==
    /\ IsSuccess(last, 201)
    /\ last.route = "POST /auth/sign_up"

IsSignUp(req) == req.route = "POST /auth/sign_up"

\* C7: sign-up stores the new user with sex=2 and role=0 whatever sex and
\* role the request body carries, answers 201, and the returned user
\* carries the submitted username and no password field.
C7_SignUpFixesSexAndRole ==
    (IsSignUp(last) /\ ~Failed(last)) =>
        /\ IsSuccess(last, 201)
        /\ LET returned == last.res[1].data.user
           IN /\ returned.username = last.raw.username
              /\ "password" \notin DOMAIN returned
              /\ returned.sex = SEX_UNSPECIFIED /\ returned.role = ROLE_NORMAL
              /\ \E u \in Users :
                    /\ u.id = returned.id
                    /\ u.username = last.raw.username /\ u.email = last.raw.email
                    /\ u.sex = SEX_UNSPECIFIED
                    /\ u.role = ROLE_NORMAL

C7_Witness ==
    /\ IsSignUp(last)
    /\ last.raw.role = ROLE_ADMIN /\ last.raw.sex = 1
    /\ IsSuccess(last, 201)
    /\ \E u \in Users : u.id = last.res[1].data.user.id /\ u.role = ROLE_NORMAL /\ u.sex = 2

EmailHeld(raw) == \E u \in Users : u.email = raw.email

UsernameHeld(raw) == \E u \in Users : u.username = raw.username

ValidationFailureFor(raw, req) ==
    /\ IsFailure(req, 400, "Validation error")
    /\ EmailHeld(raw) => InErrors(req, "Email exists. Please use another one.")
    /\ UsernameHeld(raw) => InErrors(req, "Username exists. Please use another one.")

Matching(req) == {u \in Users : u.email = req.login \/ u.username = req.login}

TokenReturned(req) ==
    /\ IsSuccess(req, 200)
    /\ DOMAIN req.res[1].data = {"token"}

\* C9: user sign-in with the login of an existing user and a password that
\* does not match the stored digest is answered 401 with a wrong-password
\* message and no token; a token is returned only when the login matches a
\* stored email or username and the password verifies.
C9_SignInChecksPassword ==
    last.route = "POST /auth/sign_in" =>
        /\ (/\ ~Falsy(last.login) /\ ~Falsy(last.password)
            /\ Matching(last) # {}
            /\ \A u \in Matching(last) : u.password.of # last.password) =>
              /\ IsFailure(last, 401, "Verification failed")
              /\ InErrors(last, "Wrong password.")
              /\ "data" \notin last.res[1].fields
        /\ Failed(last) => (~TokenReturned(last) /\ Len(last.res) = 1 /\ ~last.res[1].status)
        /\ ~Failed(last) =>
              /\ TokenReturned(last)
              /\ \E u \in Matching(last) :
                    /\ u.password.of = last.password
                    /\ last.res[1].data.token.userId = u.id
                    /\ last.res[1].data.token.sig = SECRET

C9_Witness ==
    /\ last.route = "POST /auth/sign_in"
    /\ last.login = "alice" /\ last.password = "123123"
    /\ Matching(last) # {}
    /\ IsFailure(last, 401, "Verification failed")
    /\ InErrors(last, "Wrong password.")

\* C10: admin sign-in returns a token only for an account whose role is
\* administrator (100); for an account with another role it answers 401 and
\* issues no token even when login and password are correct.
C10_AdminSignInNeedsRole ==
    last.route = "POST /admin/auth/sign_in" =>
        /\ (/\ ~Falsy(last.login) /\ ~Falsy(last.password)
            /\ Matching(last) # {}
            /\ \A u \in Matching(last) : u.role # ROLE_ADMIN) =>
              /\ IsFailure(last, 401, "Verification failed")
              /\ ~TokenReturned(last)
        /\ Failed(last) => (~TokenReturned(last) /\ Len(last.res) = 1 /\ ~last.res[1].status)
        /\ ~Failed(last) =>
              /\ TokenReturned(last)
              /\ \E u \in Matching(last) :
                    /\ u.role = ROLE_ADMIN
                    /\ u.password.of = last.password
                    /\ last.res[1].data.token.userId = u.id

C10_Witness ==
    /\ last.route = "POST /admin/auth/sign_in"
    /\ last.login = "user1@gmail.com" /\ last.password = "123123"
    /\ \E u \in Matching(last) : u.role = ROLE_NORMAL /\ u.password.of = last.password
    /\ IsFailure(last, 401, "Verification failed")
    /\ InErrors(last, "Not authorized to access.")

\* The likesCount column of course `id` in `table`.
likesCountOf(table, id) == (CHOOSE c \in table : c.id = id).likesCount

IsPostLikes(req) == req.route = "POST /likes" /\ req.handlerRan

\* C11: POST /likes is a toggle.  A call by user u for an existing course c
\* is answered 200 in both branches; when u has no like for c it stores one
\* and raises c's likesCount by 1, when u has one it removes it and lowers
\* likesCount by 1, and it touches no other like and no other course: two
\* calls in sequence leave the likes and the counter where they were.
C11_LikeToggle ==
    [][(IsPostLikes(last') /\ findByPk(Courses, last'.raw.courseId) # {}) =>
         LET c == last'.raw.courseId
             like == LikeRow(c, last'.reqUserId)
         IN /\ IsSuccess(last', 200)
            /\ \A o \in Courses : o.id # c => o \in Courses'
            /\ Cardinality(Courses') = Cardinality(Courses)
            /\ IF ~BagIn(like, Likes)
                 THEN /\ Likes' = Likes (+) SetToBag({like})
                      /\ likesCountOf(Courses', c) = likesCountOf(Courses, c) + 1
                      /\ last'.res[1].message = "Liked successfully."
                 ELSE /\ Likes' (+) SetToBag({like}) = Likes
                      /\ likesCountOf(Courses', c) = likesCountOf(Courses, c) - 1
                      /\ last'.res[1].message = "Unliked successfully."]_vars

\* The second call of a pair has been answered: the like is gone again and
\* every counter is back at its initial value.
C11_Witness ==
    /\ IsPostLikes(last)
    /\ IsSuccess(last, 200)
    /\ last.res[1].message = "Unliked successfully."
    /\ Likes = EmptyBag
    /\ Courses = SeedCourses

\* A list handler ran; the pagination the response reports.
IsList(req) ==
    req.route \in {"GET /search", "GET /admin/categories", "GET /likes"} /\ req.handlerRan

Reported(req) == req.res[1].data.pagination

One == [nan |-> FALSE, n |-> 1, d |-> 1]

Zero == [nan |-> FALSE, n |-> 0, d |-> 1]

Ten == [nan |-> FALSE, n |-> 10, d |-> 1]

\* The offset handed to the data layer is (page - 1) * limit, and a 200
\* response reports `page` as its currentPage.
UsedPage(req, page) ==
    /\ req.body.offset.n * page.d * req.body.limit.d
          = (page.n - page.d) * req.body.limit.n * req.body.offset.d
    /\ IsSuccess(req, 200) => Reported(req).currentPage = page

\* C12 as stated: a currentPage that is zero, negative, non-numeric or
\* omitted makes every list endpoint use page 1, for the offset and in the
\* pagination it returns.
C12_NonPositivePageIsOne ==
    (IsList(last) /\ (Number(last.raw.currentPage).nan \/ Number(last.raw.currentPage).n <= 0))
        => UsedPage(last, One)

\* C12 amended: a currentPage that is zero, non-numeric or omitted makes every
\* list endpoint use page 1, for the offset and in the pagination it returns.
C12_ZeroOrNonNumericPageIsOne ==
    (IsList(last) /\ (Number(last.raw.currentPage).nan \/ Number(last.raw.currentPage).n = 0))
        => UsedPage(last, One)

\* currentPage=a was answered 200 from page 1.
C12_Witness ==
    /\ IsList(last) /\ IsSuccess(last, 200)
    /\ last.raw.currentPage = <<"a">>
    /\ last.raw.pageSize = <<"5">>
    /\ Reported(last).currentPage = One
    /\ last.body.offset = Zero

\* C13: the limit and offset every list endpoint hands to the data layer are
\* integers, the limit positive and the offset non-negative, whatever the raw
\* currentPage and pageSize were.
C13_PositiveIntegers ==
    IsList(last) =>
        /\ IsInteger(last.body.limit) /\ last.body.limit.n > 0
        /\ IsInteger(last.body.offset) /\ last.body.offset.n >= 0

\* C14: a pageSize that is 0, non-numeric or omitted makes every list endpoint
\* use page size 10: the limit handed to the data layer is 10, never 0 and
\* never absent, and the pagination returned says 10.
C14_FalsyPageSizeIsTen ==
    (IsList(last) /\ (Number(last.raw.pageSize).nan \/ Number(last.raw.pageSize).n = 0))
        => /\ last.body.limit = Ten
           /\ IsSuccess(last, 200) => Reported(last).pageSize = Ten

\* pageSize=0 on the second page: limit 10, offset 40.
C14_Witness ==
    /\ IsList(last) /\ IsSuccess(last, 200)
    /\ last.raw.pageSize = <<"0">>
    /\ last.raw.currentPage = <<"5">>
    /\ last.body.limit = Ten
    /\ last.body.offset = [nan |-> FALSE, n |-> 40, d |-> 1]

NegativeInteger(raw) == IsInteger(Number(raw)) /\ Number(raw).n < 0

\* C15: a list request answered 200 reports the pagination it executed: the
\* reported pageSize is the limit and (currentPage - 1) * pageSize of the
\* reported values is the offset given to the data layer; a negative integer
\* input is reported as its absolute value; and GET
\* /admin/categories?currentPage=0&pageSize=-5 by an administrator is
\* answered 200 with currentPage 1, pageSize 5, executed with limit 5, offset 0.
C15_MetadataIsWhatWasUsed ==
    /\ (IsList(last) /\ IsSuccess(last, 200)) =>
          /\ Reported(last).pageSize = last.body.limit
          /\ UsedPage(last, Reported(last).currentPage)
          /\ NegativeInteger(last.raw.currentPage) =>
                Reported(last).currentPage.n = 0 - Number(last.raw.currentPage).n
          /\ NegativeInteger(last.raw.pageSize) =>
                Reported(last).pageSize.n = 0 - Number(last.raw.pageSize).n
    /\ (/\ IsList(last) /\ last.route = "GET /admin/categories"
        /\ last.raw.currentPage = <<"0">> /\ last.raw.pageSize = <<"-", "5">>) =>
          /\ IsSuccess(last, 200)
          /\ Reported(last).currentPage = One
          /\ Reported(last).pageSize.n = 5
          /\ last.body.limit.n = 5 /\ last.body.offset = Zero

C15_Witness ==
    /\ IsList(last) /\ last.route = "GET /admin/categories"
    /\ last.raw.currentPage = <<"0">> /\ last.raw.pageSize = <<"-", "5">>
    /\ IsSuccess(last, 200)
    /\ Reported(last).total = 2

\* C16: whenever the effective currentPage and pageSize of a list request are
\* positive integers, the data layer gets offset (currentPage - 1) * pageSize
\* and limit pageSize.
C16_OffsetFormula ==
    IsList(last) =>
        LET currentPage == Paginate(last.raw).currentPage
            pageSize == Paginate(last.raw).pageSize
        IN (IsInteger(currentPage) /\ IsInteger(pageSize) /\ currentPage.n > 0 /\ pageSize.n > 0)
              => /\ IsInteger(last.body.offset)
                 /\ last.body.offset.n = (currentPage.n - 1) * pageSize.n
                 /\ last.body.limit = pageSize
                 /\ IsSuccess(last, 200) => /\ Reported(last).currentPage = currentPage
                                            /\ Reported(last).pageSize = pageSize

\* Page 50 of size 5 starts at offset 245.
C16_Witness ==
    /\ IsList(last) /\ IsSuccess(last, 200)
    /\ Reported(last).currentPage.n = 50 /\ Reported(last).pageSize.n = 5
    /\ last.body.offset.n = 245

\* C17: password round trip.  The password column of every user holds a
\* bcrypt digest, never the plaintext; a sign-in with a login of user u (its
\* email or its username) and the password u was created with returns a token
\* for u, and a sign-in with that login and any other password returns no token.
C17_PasswordRoundTrip ==
    /\ \A u \in Users : u.password.alg = "bcrypt"
    /\ last.route = "POST /auth/sign_in" =>
          \A u \in Users :
              (last.login \in {u.email, u.username} /\ ~Falsy(last.password)) =>
                  IF last.password = u.password.of
                    THEN TokenReturned(last) /\ last.res[1].data.token.userId = u.id
                    ELSE ~TokenReturned(last)

BadPassword(p) == Falsy(p) \/ Len(p) < PwMinLen \/ Len(p) > PwMaxLen

\* The request reached a handler that hands req.body.password to the model:
\* sign-up and admin create always do, the two updates when the key is sent.
SetsPassword(req) ==
    \/ req.route = "POST /auth/sign_up"
    \/ req.route = "POST /admin/users" /\ req.handlerRan
    \/ /\ req.route \in {"PUT /admin/users/:id", "PUT /users/account"}
       /\ req.handlerRan
       /\ req.raw.password # NULL

\* C18: on every path that sets a password, a password that is missing, empty,
\* shorter than 6 or longer than 45 characters changes nothing in the Users
\* table and is answered with one failure envelope; a sign-up whose password
\* has 6 to 45 characters (and whose email and username are free) stores the
\* user with a digest of that password.
C18_BadPasswordRejected ==
    [][/\ (SetsPassword(last') /\ BadPassword(last'.raw.password)) =>
              /\ Users' = Users
              /\ Len(last'.res) = 1
              /\ ~last'.res[1].status
       /\ (/\ last'.route = "POST /auth/sign_up"
           /\ ~BadPassword(last'.raw.password)
           /\ ~EmailHeld(last'.raw) /\ ~UsernameHeld(last'.raw)) =>
              /\ IsSuccess(last', 201)
              /\ \E u \in Users' \ Users :
                    u.password.alg = "bcrypt" /\ u.password.of = last'.raw.password]_vars

IsPutAccount(req) == req.route = "PUT /users/account"

\* The stored row of the user the account request was made for.
AccountOwner(req) == findByPk(Users, req.reqUserId)

\* C19: PUT /users/account changes the Users table only when currentPassword
\* was sent, password equals passwordConfirmation and currentPassword is the
\* password behind the stored digest, and then only the row of the
\* authenticated user; a request without currentPassword, with a
\* confirmation that differs, or with a currentPassword that does not verify
\* is answered 400 and leaves the table as it was.
C19_AccountNeedsCurrentPassword ==
    [][IsPutAccount(last') =>
         /\ Users' # Users =>
               /\ last'.handlerRan
               /\ ~Falsy(last'.raw.currentPassword)
               /\ last'.raw.password = last'.raw.passwordConfirmation
               /\ \E u \in AccountOwner(last') : u.password.of = last'.raw.currentPassword
               /\ \A o \in Users : o.id # last'.reqUserId => o \in Users'
         /\ (/\ last'.handlerRan
             /\ \/ Falsy(last'.raw.currentPassword)
                \/ last'.raw.password # last'.raw.passwordConfirmation
                \/ \E u \in AccountOwner(last') : u.password.of # last'.raw.currentPassword) =>
               /\ IsFailure(last', 400, "Wrong Request Parameters")
               /\ Users' = Users]_vars

\* A request whose currentPassword does not verify has been refused.
C19_Witness ==
    /\ IsPutAccount(last) /\ last.handlerRan
    /\ last.raw.currentPassword = Pw6
    /\ last.raw.password = Pw6 /\ last.raw.passwordConfirmation = Pw6
    /\ \E u \in AccountOwner(last) : u.password.of = "123123"
    /\ IsFailure(last, 400, "Wrong Request Parameters")
    /\ InErrors(last, "Current password is incorrect.")

IsGetAdminChapters(req) == req.route = "GET /admin/chapters" /\ req.handlerRan

\* The chapters of the course a query asks for.
ChaptersOf(query) ==
    {ch \in Chapters : Number(query.courseId) = [nan |-> FALSE, n |-> ch.courseId, d |-> 1]}

\* C20: GET /admin/chapters answers a request without courseId with a
\* failure; a request with courseId, with or without a title filter, returns
\* only chapters of that course and counts only those in pagination.total.
C20_OnlyRequestedCourse ==
    IsGetAdminChapters(last) =>
        IF ~Truthy(last.raw.courseId)
          THEN Len(last.res) = 1 /\ ~last.res[1].status
          ELSE /\ IsSuccess(last, 200)
               /\ last.res[1].data.rows \subseteq ChaptersOf(last.raw)
               /\ last.res[1].data.pagination.total <= Cardinality(ChaptersOf(last.raw))

IsDeleteCourse(req) == req.route = "DELETE /admin/courses/:id" /\ req.handlerRan

ChaptersOfCourse(id) == {c \in Chapters : c.courseId = id}

\* C21: DELETE /admin/courses/:id removes an existing course that has no
\* chapters and answers 200; it leaves a course that has a chapter in place
\* and answers with a failure; it answers 404 for an id that names no course.
C21_DeleteCourse ==
    [][IsDeleteCourse(last') =>
         LET id == last'.raw.id
             found == findByPk(Courses, id)
         IN /\ found = {} =>
                 IsFailure(last', 404, "Resource not exists") /\ Courses' = Courses
            /\ (found # {} /\ ChaptersOfCourse(id) = {}) =>
                 IsSuccess(last', 200) /\ Courses' = Courses \ found
            /\ (found # {} /\ ChaptersOfCourse(id) # {}) =>
                 Len(last'.res) = 1 /\ ~last'.res[1].status /\ Courses' = Courses]_vars

\* C22: GET /courses/:id for an id that names no stored course is answered
\* 404 'Resource not exists'.
C22_MissingCourseIs404 ==
    (last.route = "GET /courses/:id" /\ findByPk(Courses, last.raw.id) = {})
      => IsFailure(last, 404, "Resource not exists")

IsAdminList(req) == req.handlerRan /\ req.route \in {"GET /admin/users", "GET /admin/courses"}

\* The filter parameters of the endpoint, in the order the handler tests them.
TestOrder(req) ==
    IF req.route = "GET /admin/users"
      THEN <<"email", "username", "nickname", "role">>
      ELSE <<"categoryId", "userId", "name", "recommended", "introductory">>

\* The positions in TestOrder of the parameters that are present and non-empty.
Supplied(req) ==
    {i \in 1..Len(TestOrder(req)) :
        IF TestOrder(req)[i] \in TextColumns
          THEN req.raw[TestOrder(req)[i]] \notin {NULL, ""}
          ELSE req.raw[TestOrder(req)[i]] \notin {Absent, <<>>}}

LastSupplied(req) == TestOrder(req)[CHOOSE i \in Supplied(req) : \A j \in Supplied(req) : j <= i]

HasLiked(s) ==
    /\ inflight[s].op = "POST /likes"
    /\ inflight[s].pc = "done"
    /\ Len(inflight[s].res) = 1
    /\ inflight[s].res[1].message = "Liked successfully."

\* Both requests came from one user for one course and both took the
\* branch of 'no existing like'.
BothLiked ==
    /\ \A s \in Slots : HasLiked(s) /\ ~inflight[s].liked
    /\ \A s, t \in Slots : LikeOf(s) = LikeOf(t)

Likers(courseId) == {l.userId : l \in {k \in BagToSet(Likes) : k.courseId = courseId}}

\* C24: two POST /likes requests of one user for one course that interleave
\* at their data-layer calls can both observe 'no existing like'; then
\* likesCount has risen by 2 for that one user and differs from the number
\* of distinct users who like the course.
C24_DoubleCount ==
    BothLiked =>
        /\ likesCountOf(Courses, inflight[1].courseId) = 2
        /\ CopiesIn(LikeOf(1), Likes) = 2
        /\ Cardinality(Likers(inflight[1].courseId)) = 1
        /\ likesCountOf(Courses, inflight[1].courseId) # Cardinality(Likers(inflight[1].courseId))

C24_Witness == BothLiked /\ likesCountOf(Courses, 1) = 2 /\ Likers(1) = {2}

\* C30: a course's likesCount never drops below 0, its value before any
\* like was recorded, in any interleaving of POST /likes requests.
C30_NeverNegative == \A c \in Courses : c.likesCount >= 0

Tables == <<Users, Courses, Likes, Categories, Chapters>>

\* C25: the user middleware decides from the token alone.  It passes a
\* request on exactly when the token is a signed, unexpired JWT, attaches
\* the token's subject as req.userId, and changes nothing in the data
\* layer; whether a user with that id is stored plays no part.
C25_UserMiddlewareTokenOnly ==
    [][last'.mw = "user" =>
         /\ (last'.nextCalled = 1) <=>
              (/\ last'.token.kind = "jwt"
               /\ last'.token.sig = SECRET
               /\ now' < last'.token.exp)
         /\ last'.nextCalled = 1 =>
              last'.handlerRan /\ last'.reqUserId = last'.token.userId
         /\ last'.nextCalled = 0 =>
              ~last'.handlerRan /\ Tables' = Tables]_vars

C25_Witness ==
    /\ last.mw = "user"
    /\ last.nextCalled = 1
    /\ last.handlerRan
    /\ last.reqUserId = last.token.userId
    /\ findByPk(Users, last.reqUserId) = {}

ValidNow(token) == token.kind = "jwt" /\ token.sig = SECRET /\ now < token.exp

\* C26: the admin middleware accepts a valid token exactly when the role
\* stored for its subject at the time of the request is 100, whenever and
\* on whichever sign-in surface the token was issued.
C26_RoleAtRequestTime ==
    [][(last'.mw = "admin" /\ ValidNow(last'.token)) =>
         ((last'.nextCalled = 1) <=>
            (\E u \in Users : u.id = last'.token.userId /\ u.role = ROLE_ADMIN))]_vars

\* User 2's token comes from POST /auth/sign_in and is accepted now that
\* user 2 is administrator; user 1's token comes from the admin sign-in and
\* is refused now that user 1 is not.
C26_Witness ==
    /\ last.mw = "admin"
    /\ last.nextCalled = 1
    /\ last.token.userId = 2
    /\ held.kind = "jwt" /\ held.userId = 1
    /\ ValidNow(held)
    /\ ~adminAuth(held, now, Users).pass
    /\ adminAuth(held, now, Users).error.message = "Not authorized as admin."

RoleOf(table, id) == (CHOOSE u \in table : u.id = id).role

\* C27: no operation of the end-user surface changes the role of a stored
\* user or stores a user whose role is administrator, whatever the request
\* body carries.
C27_EndUserNeverSetsRole ==
    [][\A u \in Users' :
         IF findByPk(Users, u.id) # {}
           THEN u.role = RoleOf(Users, u.id)
           ELSE u.role = ROLE_NORMAL]_vars

C27_Witness ==
    /\ last.route = "PUT /users/info"
    /\ IsSuccess(last, 200)
    /\ last.raw.role = ROLE_ADMIN
    /\ last.raw.sex = 1
    /\ RoleOf(Users, last.reqUserId) = ROLE_NORMAL
    /\ \E u \in Users : u.username = "alice" /\ u.role = ROLE_NORMAL /\ u.id = last.reqUserId

\* C28: no two stored users share an email and no two share a username,
\* also when user creations with the same email or username interleave
\* between the validators' lookup and the insert.
C28_UniqueEmailAndUsername ==
    \A u, v \in Users : u # v => u.email # v.email /\ u.username # v.username

\* A creation that had passed the validators was refused by the unique index.
C28_Witness ==
    /\ \E s \in Slots :
         /\ inflight[s].pc = "done"
         /\ inflight[s].op = "POST /auth/sign_up"
         /\ Len(inflight[s].res) = 1
         /\ inflight[s].res[1].code = 500
         /\ \E u \in Users : u.email = inflight[s].body.email /\ u.username # inflight[s].body.username
    /\ last.err.name = "SequelizeUniqueConstraintError"

\* C29: every stored course's categoryId names an existing category, also
\* when DELETE /admin/categories/:id interleaves with POST /admin/courses
\* for that category.
C29_CategoryExists ==
    \A c \in Courses : \E g \in Categories : g.id = c.categoryId

====
